---- MODULE Spec2Model ----
(***************************************************************************)
(* Reference-counting engine of hal::v5 strong_ptr / weak_ptr /            *)
(* optional_ptr (include/strong_ptr/pointers.hpp).                         *)
(*                                                                         *)
(* A control block (detail::ref_info) is a pair of atomic counters.  The   *)
(* live pointer instances of the program are kept as bags indexed by the   *)
(* m_ctrl every pointer class stores.               Each thread executes  *)
(* one pointer operation at a time; an operation is cut into steps at its  *)
(* accesses to the atomic counters, so every interleaving of those         *)
(* accesses is explored.                                                   *)
(*                                                                         *)
(* A second, sequential program (SpecObj) works on named strong_ptr and    *)
(* optional_ptr variables whose two fields, m_ctrl and m_ptr, are kept     *)
(* with the type of the pointer: it carries the aliasing constructors, the *)
(* pointer conversions, the exceptions and the comparison operators.       *)
(*                                                                         *)
(* A third program (SpecFac) creates objects of several classes through    *)
(* make_strong_ptr, cut at the constructor and the destructor of the       *)
(* object: it carries the failures of the Factory, enable_strong_from_this *)
(* and the weak_ptr variables, empty ones included.                        *)
(*                                                                         *)
(* A fourth program (SpecNode) manages objects that hold a strong_ptr      *)
(* themselves, so that releasing one object can release others and the     *)
(* source of an assignment can live inside the object the destination      *)
(* owns; it carries the chains and the cycles of objects.                  *)
(***************************************************************************)
EXTENDS Integers, FiniteSets, Sequences, TLC

\* ----------------------------------------------------------------- bounds
MaxBlocks == 2    \* control blocks make_strong_ptr may allocate
MaxStrong == 2    \* an owner is added only while fewer strong references exist
MaxWeak == 2      \* an observer is added only while fewer weak references exist

\* two threads: each race of the counter protocol is between two operations
Threads == {1, 2}
Blocks == 1..MaxBlocks

VARIABLES
  strong_count,   \* ref_info::strong_count of each control block
  weak_count,     \* ref_info::weak_count of each control block
  destroyed,      \* how many times m_object.~T() has run, per block
  deallocated,    \* how many times deallocate_bytes(p_info, ..) has run
  nblocks,        \* control blocks allocated so far (blocks 1..nblocks exist)
  sp,             \* bag of live strong_ptr instances: sp[m_ctrl]
  wp,             \* bag of live non-empty weak_ptr instances
  op,             \* bag of engaged optional_ptr instances (their m_value)
  th,             \* per thread: position in the running operation, locals
  uaf,            \* some step has accessed a deallocated control block
                  \* or dereferenced a null pointer
  ss,             \* strong_ptr variables of a sequential program: m_ctrl, m_ptr
  os,             \* optional_ptr variables: the two words of the union
  err,            \* the exception the last operation has thrown, if any
  ws,             \* weak_ptr variables of the sequential program
  objs,           \* the objects: their class, lifetime phase, m_weak_this
  mem,            \* allocations of the memory resource not yet returned
  fac,            \* the make_strong_ptr call or the ~T() in progress
  next            \* per object: the block its strong_ptr member references

vars == <<strong_count, weak_count, destroyed, deallocated, nblocks,
          sp, wp, op, th, uaf, ss, os, err, ws, objs, mem, fac, next>>

\* the pointer variables of the sequential program, with their types and
\* addresses, and the instance bags and threads of the concurrent one
objvars == <<ss, os, err>>
concvars == <<sp, wp, op, th>>
\* the objects with a constructor and a destructor, and the weak_ptr
\* variables, of the program that creates them through make_strong_ptr
facvars == <<ws, objs, mem, fac>>

\* ------------------------------------------------------------ thread state
\* pc   position; b: the m_ctrl the operation works on;
\* cur  current_count of weak_ptr::lock; ret: where the caller of
\* ptr_release / ptr_release_weak continues; sb: m_ctrl of p_other in operator=
IdleTh == [pc |-> "idle", b |-> 0, cur |-> 0, ret |-> "idle", sb |-> 0]
OffTh == [IdleTh EXCEPT !.pc = "off"]

EmptyBag == [b \in Blocks |-> 0]

BagAdd(bag, b) == [bag EXCEPT ![b] = @ + 1]
BagDel(bag, b) == [bag EXCEPT ![b] = @ - 1]

RECURSIVE SumTo(_, _)
SumTo(f, n) == IF n = 0 THEN 0 ELSE f[n] + SumTo(f, n - 1)
\* the references of one kind held by the whole program
Total(f) == SumTo(f, MaxBlocks)

Created(b) == b \in 1..nblocks

\* an access to the counters of block b touches freed memory
Touch(b) == deallocated[b] > 0

\* p_other of a running operator= must outlive the call
PinnedStrong(b) ==
  \E t \in Threads :
     /\ th[t].ret = "assign_add" \/ th[t].pc = "assign_add"
     /\ th[t].sb = b

LockPcs == {"lock_load", "lock_cas", "lock_copy", "lock_dtor", "lock_null"}

\* *this of a running weak_ptr::lock must outlive the call
PinnedWeak(b) ==
  \E t \in Threads :
     /\ th[t].pc \in LockPcs \/ th[t].ret = "lock_ret"
     /\ th[t].b = b

\* a strong_ptr instance (b) that may be destroyed or assigned to
FreeStrong(b) == sp[b] > (IF PinnedStrong(b) THEN 1 ELSE 0)
FreeWeak(b) == wp[b] > (IF PinnedWeak(b) THEN 1 ELSE 0)

\* ------------------------------------------- objects, addresses and types
\* The sequential program manages objects of a class U that has a member
\* array of Capacity elements of type E, a member of type E, and a base
\* class T that is not its first base.  An address is <<block, offset>>:
\* offset 0 is the U object, ElemOff(i) element i of the array, MemberOff
\* the member, BaseOff the T sub-object.
Capacity == 1     \* N of the member array

Null == <<0, 0>>
ElemOff(i) == 1 + i
MemberOff == Capacity + 1
BaseOff == Capacity + 2
Offsets == 0..BaseOff

\* the type of the (sub-)object at an offset
TypeAt(off) ==
  IF off = 0 THEN "U" ELSE IF off = BaseOff THEN "T" ELSE "E"

\* the implicit conversion U* -> T*: the address of the base sub-object
Upcast(p) == IF p = Null THEN Null ELSE <<p[1], p[2] + BaseOff>>

\* is_convertible_v<from*, to*>
Convertible(from, to) == from = to \/ (from = "U" /\ to = "T")

\* the conversion from* -> to* of a pointer value
ConvertPtr(p, from, to) == IF from = "U" /\ to = "T" THEN Upcast(p) ELSE p

\* every operation has at most two pointer operands of a kind: two
\* strong_ptr variables and two optional_ptr variables
StrongVars == {1, 2}
OptVars == {1, 2}

\* a variable outside its lifetime; ty is the T of strong_ptr<T> /
\* optional_ptr<T> while the variable lives
NoVar == [ctrl |-> 0, ptr |-> Null, ty |-> "none"]

\* hal::out_of_range carries m_index and m_capacity
NoErr == [kind |-> "none", index |-> 0, capacity |-> 0]
out_of_range(i, n) == [kind |-> "out_of_range", index |-> i, capacity |-> n]
bad_optional_ptr_access ==
  [kind |-> "bad_optional_ptr_access", index |-> 0, capacity |-> 0]

\* ----------------------------------------- classes, objects, the Factory
\* the classes make_strong_ptr is instantiated with: an ordinary class, a
\* class whose constructor takes strong_ptr_only_token first (the Factory
\* passes new_object a token before p_args for it), a class X
\* deriving from enable_strong_from_this<X>, and a class deriving from such
\* an X (enable_strong_from_this<X> is a base of it,
\* enable_strong_from_this of the class itself is not)
Kinds == {"plain", "token", "self", "derived"}
HasMixin(k) == k \in {"self", "derived"}

\* std::is_base_of_v<enable_strong_from_this<T>, T>
IsBaseOfMixin(k) == k = "self"

\* object 0 has automatic storage; object b > 0 is the m_object of the
\* detail::rc<T> of control block b
Auto == 0
ObjIds == 0..MaxBlocks

WeakVars == {1, 2}
\* the optional_ptr variable that receives the result of lock()
LockVars == {1}

\* a default-constructed weak_ptr: m_ctrl = nullptr, m_ptr = nullptr
EmptyWeak == [ctrl |-> 0, ptr |-> Null]

\* phase: "ctor" while the constructor runs, "built" once it has returned,
\* "alive" once make_strong_ptr has returned (or, with automatic storage,
\* once the constructor has), "dtor" while ~T() runs
NoObj == [kind |-> "none", phase |-> "none", weak_this |-> EmptyWeak]

\* pc: "ctor" new_object is constructing rc<T>, "wire" it has returned,
\* "dtor" destroy_function is running ~T(); b: the control block; d: the
\* variable that receives the result of make_strong_ptr
IdleFac == [pc |-> "idle", b |-> 0, d |-> 0]

\* the exceptions of the Factory and of strong_from_this
bad_alloc == [kind |-> "bad_alloc", index |-> 0, capacity |-> 0]
ctor_error == [kind |-> "ctor_error", index |-> 0, capacity |-> 0]
bad_weak_ptr == [kind |-> "bad_weak_ptr", index |-> 0, capacity |-> 0]

Init ==
  /\ strong_count = [b \in Blocks |-> 0]
  /\ weak_count = [b \in Blocks |-> 0]
  /\ destroyed = [b \in Blocks |-> 0]
  /\ deallocated = [b \in Blocks |-> 0]
  /\ nblocks = 0
  /\ sp = EmptyBag
  /\ wp = EmptyBag
  /\ op = EmptyBag
  /\ th = [t \in Threads |-> IdleTh]
  /\ uaf = FALSE
  /\ ss = [s \in StrongVars |-> NoVar]
  /\ os = [o \in OptVars |-> NoVar]
  /\ err = NoErr
  /\ ws = [w \in WeakVars |-> NoVar]
  /\ objs = [x \in ObjIds |-> NoObj]
  /\ mem = 0
  /\ fac = IdleFac
  /\ next = [b \in Blocks |-> 0]

\* ------------------------------------------------------------ atomic steps
\* faulty variants: the increment forgotten, the increment done twice
ptr_add_ref_none(sc, b) == sc
ptr_add_ref_twice(sc, b) == [sc EXCEPT ![b] = @ + 2]
ptr_add_ref(sc, b) == [sc EXCEPT ![b] = @ + 1]

ptr_add_weak(wc, b) == [wc EXCEPT ![b] = @ + 1]

\* faulty variant: every strong release takes itself for the last
WasLastStrong_any(old) == old >= 1
\* ptr_release: strong_count.fetch_sub(1) == 1
WasLastStrong(old) == old = 1

\* faulty variant: the weak release compares the value before the decrement with 1
WasLastWeak_one(old) == old = 1
\* ptr_release_weak: weak_count.fetch_sub(1) == 0
WasLastWeak(old) == old = 0

\* faulty variant: the destructor is never run
destroy_function_skip(d, b, isNull) == d
\* detail::rc<T>::destroy_function: runs ~T() unless handed nullptr
destroy_function(d, b, isNull) ==
  IF isNull THEN d ELSE [d EXCEPT ![b] = @ + 1]

\* return from ptr_release / ptr_release_weak to the calling operation
Return(r) == IF r.ret = "idle" THEN IdleTh
             ELSE [r EXCEPT !.pc = r.ret, !.ret = "idle"]

\* first step of ptr_release(b): the fetch_sub; k is the thread's record on
\* return (k.pc the place the caller continues at)
ReleaseStart(t, b, k) ==
  /\ strong_count' = [strong_count EXCEPT ![b] = @ - 1]
  /\ th' = [th EXCEPT ![t] =
              IF WasLastStrong(strong_count[b])
              THEN [k EXCEPT !.pc = "destroy", !.b = b, !.ret = k.pc]
              ELSE IF k.pc = "idle" THEN IdleTh ELSE k]
  /\ uaf' = (uaf \/ Touch(b))

\* first step of ptr_release_weak(b): the fetch_sub
ReleaseWeakStart(t, b, k) ==
  /\ weak_count' = [weak_count EXCEPT ![b] = @ - 1]
  /\ th' = [th EXCEPT ![t] =
              IF WasLastWeak(weak_count[b])
              THEN [k EXCEPT !.pc = "w_load_strong", !.b = b, !.ret = k.pc]
              ELSE IF k.pc = "idle" THEN IdleTh ELSE k]
  /\ uaf' = (uaf \/ Touch(b))

\* the rest of ptr_release once the fetch_sub has returned 1
ptr_release(t) ==
  LET r == th[t]
      b == r.b
  IN
  /\ r.pc \in {"destroy", "load_weak", "dealloc"}
  /\ CASE r.pc = "destroy" ->
            /\ destroyed' = destroy_function(destroyed, b, FALSE)
            /\ th' = [th EXCEPT ![t].pc = "load_weak"]
            /\ uaf' = (uaf \/ Touch(b))
            /\ UNCHANGED deallocated
       [] r.pc = "load_weak" ->
            /\ th' = [th EXCEPT ![t] =
                        IF weak_count[b] = 0
                        THEN [r EXCEPT !.pc = "dealloc"]
                        ELSE Return(r)]
            /\ uaf' = (uaf \/ Touch(b))
            /\ UNCHANGED <<destroyed, deallocated>>
       [] r.pc = "dealloc" ->
            /\ deallocated' = [deallocated EXCEPT ![b] = @ + 1]
            /\ th' = [th EXCEPT ![t] = Return(r)]
            /\ uaf' = (uaf \/ Touch(b))
            /\ UNCHANGED destroyed
  /\ UNCHANGED <<strong_count, weak_count, nblocks, sp, wp, op>>
  /\ UNCHANGED <<objvars, facvars, next>>

\* the rest of ptr_release_weak once the fetch_sub has returned 0
ptr_release_weak_rest(t) ==
  LET r == th[t]
      b == r.b
  IN
  /\ r.pc \in {"w_load_strong", "w_dealloc"}
  /\ CASE r.pc = "w_load_strong" ->
            /\ th' = [th EXCEPT ![t] =
                        IF strong_count[b] = 0
                        THEN [r EXCEPT !.pc = "w_dealloc"]
                        ELSE Return(r)]
            /\ uaf' = (uaf \/ Touch(b))
            /\ UNCHANGED <<destroyed, deallocated>>
       [] r.pc = "w_dealloc" ->
            /\ destroyed' = destroy_function(destroyed, b, TRUE)
            /\ deallocated' = [deallocated EXCEPT ![b] = @ + 1]
            /\ th' = [th EXCEPT ![t] = Return(r)]
            /\ uaf' = (uaf \/ Touch(b))
  /\ UNCHANGED <<strong_count, weak_count, nblocks, sp, wp, op>>
  /\ UNCHANGED <<objvars, facvars, next>>

\* ------------------------------------------------------------- strong_ptr
make_strong_ptr(t) ==
  /\ th[t].pc = "idle"
  /\ nblocks < MaxBlocks
  /\ Total(strong_count) < MaxStrong
  /\ LET b == nblocks + 1 IN
       /\ nblocks' = b
       /\ strong_count' = [strong_count EXCEPT ![b] = 1]
       /\ weak_count' = [weak_count EXCEPT ![b] = 0]
       /\ sp' = BagAdd(sp, b)
  /\ UNCHANGED <<destroyed, deallocated, wp, op, th, uaf>>
  /\ UNCHANGED <<objvars, facvars, next>>

\* copy, converting copy, "move" and aliasing constructors: each takes
\* p_other's m_ctrl and adds a reference (they differ in m_ptr only)
StrongCopy(t) ==
  /\ th[t].pc = "idle"
  /\ \E b \in Blocks :
       /\ sp[b] > 0
       /\ Total(strong_count) < MaxStrong
       /\ strong_count' = ptr_add_ref(strong_count, b)
       /\ sp' = BagAdd(sp, b)
       /\ uaf' = (uaf \/ Touch(b))
  /\ UNCHANGED <<weak_count, destroyed, deallocated, nblocks, wp, op, th>>
  /\ UNCHANGED <<objvars, facvars, next>>

\* ~strong_ptr: release()
StrongDestroy(t) ==
  /\ th[t].pc = "idle"
  /\ \E b \in Blocks :
       /\ FreeStrong(b)
       /\ sp' = BagDel(sp, b)
       /\ ReleaseStart(t, b, IdleTh)
  /\ UNCHANGED <<weak_count, destroyed, deallocated, nblocks, wp, op>>
  /\ UNCHANGED <<objvars, facvars, next>>

\* operator=(p_other), this != &p_other: release(), then (StrongAssignAdd)
\* take p_other's fields and add a reference
StrongAssign(t) ==
  /\ th[t].pc = "idle"
  /\ \E b \in Blocks, b2 \in Blocks :
       /\ FreeStrong(b)
       /\ sp[b2] > (IF b2 = b THEN 1 ELSE 0)
       /\ sp' = BagDel(sp, b)
       /\ ReleaseStart(t, b,
            [IdleTh EXCEPT !.pc = "assign_add", !.sb = b2])
  /\ UNCHANGED <<weak_count, destroyed, deallocated, nblocks, wp, op>>
  /\ UNCHANGED <<objvars, facvars, next>>

StrongAssignAdd(t) ==
  LET r == th[t] IN
  /\ r.pc = "assign_add"
  /\ strong_count' = ptr_add_ref(strong_count, r.sb)
  /\ sp' = BagAdd(sp, r.sb)
  /\ th' = [th EXCEPT ![t] = IdleTh]
  /\ uaf' = (uaf \/ Touch(r.sb))
  /\ UNCHANGED <<weak_count, destroyed, deallocated, nblocks, wp, op>>
  /\ UNCHANGED <<objvars, facvars, next>>

\* --------------------------------------------------------------- weak_ptr
\* faulty variant: the weak_ptr constructor adds a strong reference as well
WeakFromStrong_addref(t) ==
  /\ th[t].pc = "idle"
  /\ \E b \in Blocks :
       /\ sp[b] > 0
       /\ Total(weak_count) < MaxWeak
       /\ weak_count' = ptr_add_weak(weak_count, b)
       /\ strong_count' = [strong_count EXCEPT ![b] = @ + 1]
       /\ wp' = BagAdd(wp, b)
       /\ uaf' = (uaf \/ Touch(b))
  /\ UNCHANGED <<destroyed, deallocated, nblocks, sp, op, th>>
  /\ UNCHANGED <<objvars, facvars, next>>

\* weak_ptr(strong_ptr const&) and its converting form
WeakFromStrong(t) ==
  /\ th[t].pc = "idle"
  /\ \E b \in Blocks :
       /\ sp[b] > 0
       /\ Total(weak_count) < MaxWeak
       /\ weak_count' = ptr_add_weak(weak_count, b)
       /\ wp' = BagAdd(wp, b)
       /\ uaf' = (uaf \/ Touch(b))
  /\ UNCHANGED <<strong_count, destroyed, deallocated, nblocks, sp, op, th>>
  /\ UNCHANGED <<objvars, facvars, next>>

\* weak_ptr(weak_ptr const&) and its converting form, p_other not empty
WeakCopy(t) ==
  /\ th[t].pc = "idle"
  /\ \E b \in Blocks :
       /\ wp[b] > 0
       /\ Total(weak_count) < MaxWeak
       /\ weak_count' = ptr_add_weak(weak_count, b)
       /\ wp' = BagAdd(wp, b)
       /\ uaf' = (uaf \/ Touch(b))
  /\ UNCHANGED <<strong_count, destroyed, deallocated, nblocks, sp, op, th>>
  /\ UNCHANGED <<objvars, facvars, next>>

\* weak_ptr(weak_ptr&&): the new instance takes the fields, p_other is emptied
WeakMove(t) ==
  /\ th[t].pc = "idle"
  /\ \E b \in Blocks :
       /\ FreeWeak(b)
       /\ wp' = BagAdd(BagDel(wp, b), b)
  /\ UNCHANGED <<strong_count, weak_count, destroyed, deallocated, nblocks,
                 sp, op, th, uaf>>
  /\ UNCHANGED <<objvars, facvars, next>>

\* ~weak_ptr of a non-empty weak_ptr, and operator=(weak_ptr&&), whose
\* temporary takes p_other's fields, swaps and releases the old *this:
\* ptr_release_weak, step by step
WeakDestroy(t) ==
  /\ IF th[t].pc = "idle"
     THEN /\ \E b \in Blocks :
               /\ FreeWeak(b)
               /\ wp' = BagDel(wp, b)
               /\ ReleaseWeakStart(t, b, IdleTh)
          /\ UNCHANGED <<strong_count, destroyed, deallocated, nblocks, sp, op>>
     ELSE /\ ptr_release_weak_rest(t)
          /\ UNCHANGED wp
  /\ UNCHANGED <<objvars, facvars, next>>

\* operator=(weak_ptr const&) / operator=(strong_ptr const&):
\* weak_ptr(p_other).swap(*this); first the temporary adds a weak reference
\* to p_other's block; *this is an empty weak_ptr (b = 0) or a live one
WeakAssign(t) ==
  /\ th[t].pc = "idle"
  /\ \E b \in Blocks \cup {0}, b2 \in Blocks :
       /\ IF b = 0 THEN TRUE ELSE FreeWeak(b)
       /\ wp[b2] > 0 \/ sp[b2] > 0
       /\ Total(weak_count) < MaxWeak
       /\ weak_count' = ptr_add_weak(weak_count, b2)
       /\ wp' = IF b = 0 THEN wp ELSE BagDel(wp, b)
       /\ th' = [th EXCEPT ![t] =
                   [IdleTh EXCEPT !.pc = "wassign_swap", !.b = b, !.sb = b2]]
       /\ uaf' = (uaf \/ Touch(b2))
  /\ UNCHANGED <<strong_count, destroyed, deallocated, nblocks, sp, op>>
  /\ UNCHANGED <<objvars, facvars, next>>

\* ... then the swap, and the temporary's destructor releases the old block
WeakAssignSwap(t) ==
  LET r == th[t] IN
  /\ r.pc = "wassign_swap"
  /\ wp' = BagAdd(wp, r.sb)
  /\ IF r.b = 0
     THEN /\ th' = [th EXCEPT ![t] = IdleTh]
          /\ UNCHANGED <<weak_count, uaf>>
     ELSE ReleaseWeakStart(t, r.b, IdleTh)
  /\ UNCHANGED <<strong_count, destroyed, deallocated, nblocks, sp, op>>
  /\ UNCHANGED <<objvars, facvars, next>>

\* weak_ptr::expired
expired(b) == b = 0 \/ strong_count[b] = 0

\* faulty variants: fetch_add in place of the compare-exchange; a plain store of
\* current_count + 1
lock_cas_blind(t, r) ==
  /\ strong_count' = [strong_count EXCEPT ![r.b] = @ + 1]
  /\ th' = [th EXCEPT ![t].pc = "lock_copy"]
lock_cas_stale(t, r) ==
  /\ strong_count' = [strong_count EXCEPT ![r.b] = r.cur + 1]
  /\ th' = [th EXCEPT ![t].pc = "lock_copy"]

\* faulty variant: a failed compare-exchange does not reload current_count
lock_cas_noreload(t, r) ==
  \/ /\ strong_count[r.b] = r.cur
     /\ strong_count' = [strong_count EXCEPT ![r.b] = r.cur + 1]
     /\ th' = [th EXCEPT ![t].pc = "lock_copy"]
  \/ /\ strong_count' = strong_count
     /\ th' = th

\* faulty variant: a failed compare-exchange lowers current_count by one
\* in place of loading the value it saw
lock_cas_guess(t, r) ==
  \/ /\ strong_count[r.b] = r.cur
     /\ strong_count' = [strong_count EXCEPT ![r.b] = r.cur + 1]
     /\ th' = [th EXCEPT ![t].pc = "lock_copy"]
  \/ /\ strong_count[r.b] # r.cur
     /\ strong_count' = strong_count
     /\ th' = [th EXCEPT ![t].cur = r.cur - 1]

\* compare_exchange_weak(current_count, current_count + 1): succeeds only on
\* the expected value; fails (also spuriously) loading the value it saw
lock_cas(t, r) ==
  \/ /\ strong_count[r.b] = r.cur
     /\ strong_count' = [strong_count EXCEPT ![r.b] = r.cur + 1]
     /\ th' = [th EXCEPT ![t].pc = "lock_copy"]
  \/ /\ strong_count' = strong_count
     /\ th' = [th EXCEPT ![t].cur = strong_count[r.b]]

\* faulty variant: obj is never destroyed
lock_copy_leak(t, r) ==
  /\ strong_count' = ptr_add_ref(strong_count, r.b)
  /\ th' = [th EXCEPT ![t].pc = "lock_ret"]

\* auto obj = strong_ptr<T>(m_ctrl, m_ptr); return obj;
\* the optional_ptr returned is built by optional_ptr(strong_ptr const&),
\* which copies obj; obj is destroyed next.  The optional_ptr is the
\* thread's own until lock returns, when it joins op.
lock_copy(t, r) ==
  /\ strong_count' = ptr_add_ref(strong_count, r.b)
  /\ th' = [th EXCEPT ![t].pc = "lock_dtor"]

\* weak_ptr::lock on a non-empty weak_ptr, step by step
lock(t) ==
  LET r == th[t] IN
  /\ r.pc \in {"idle"} \cup LockPcs \cup {"lock_ret"}
  /\ CASE r.pc = "idle" ->
            \* if (expired()) return nullptr;
            /\ \E b \in Blocks :
                 /\ wp[b] > 0
                 /\ Total(strong_count) < MaxStrong
                 /\ th' = [th EXCEPT ![t] =
                             [IdleTh EXCEPT !.b = b,
                                !.pc = IF expired(b) THEN "lock_null"
                                       ELSE "lock_load"]]
                 /\ uaf' = (uaf \/ Touch(b))
            /\ UNCHANGED <<strong_count, op>>
       [] r.pc = "lock_load" ->
            /\ th' = [th EXCEPT ![t].cur = strong_count[r.b],
                                ![t].pc = "lock_cas"]
            /\ uaf' = (uaf \/ Touch(r.b))
            /\ UNCHANGED <<strong_count, op>>
       [] r.pc = "lock_cas" ->
            \* while (current_count > 0) { if (compare_exchange_weak ..
            /\ IF r.cur > 0
               THEN /\ lock_cas(t, r)
                    /\ uaf' = (uaf \/ Touch(r.b))
               ELSE /\ th' = [th EXCEPT ![t].pc = "lock_null"]
                    /\ UNCHANGED <<strong_count, uaf>>
            /\ UNCHANGED op
       [] r.pc = "lock_copy" ->
            /\ lock_copy(t, r)
            /\ UNCHANGED op
            /\ uaf' = (uaf \/ Touch(r.b))
       [] r.pc = "lock_dtor" ->
            \* obj.~strong_ptr()
            /\ ReleaseStart(t, r.b, [r EXCEPT !.pc = "lock_ret"])
            /\ UNCHANGED op
       [] r.pc = "lock_ret" ->
            \* the caller receives the engaged optional_ptr
            /\ op' = BagAdd(op, r.b)
            /\ th' = [th EXCEPT ![t] = IdleTh]
            /\ UNCHANGED <<strong_count, uaf>>
       [] r.pc = "lock_null" ->
            \* return nullptr: a disengaged optional_ptr
            /\ th' = [th EXCEPT ![t] = IdleTh]
            /\ UNCHANGED <<strong_count, op, uaf>>
  /\ UNCHANGED <<weak_count, destroyed, deallocated, nblocks, sp, wp>>
  /\ UNCHANGED <<objvars, facvars, next>>

\* ----------------------------------------------------------- optional_ptr
\* optional_ptr(strong_ptr const&): m_value(value)
OptFromStrong(t) ==
  /\ th[t].pc = "idle"
  /\ \E b \in Blocks :
       /\ sp[b] > 0
       /\ Total(strong_count) < MaxStrong
       /\ strong_count' = ptr_add_ref(strong_count, b)
       /\ op' = BagAdd(op, b)
       /\ uaf' = (uaf \/ Touch(b))
  /\ UNCHANGED <<weak_count, destroyed, deallocated, nblocks, sp, wp, th>>
  /\ UNCHANGED <<objvars, facvars, next>>

\* ~optional_ptr of an engaged optional_ptr: m_value.~strong_ptr()
OptDestroy(t) ==
  /\ th[t].pc = "idle"
  /\ \E b \in Blocks :
       /\ op[b] > 0
       /\ op' = BagDel(op, b)
       /\ ReleaseStart(t, b, IdleTh)
  /\ UNCHANGED <<weak_count, destroyed, deallocated, nblocks, sp, wp>>
  /\ UNCHANGED <<objvars, facvars, next>>

Next ==
  \E t \in Threads :
    \/ make_strong_ptr(t)
    \/ StrongCopy(t)
    \/ StrongDestroy(t)
    \/ StrongAssign(t)
    \/ StrongAssignAdd(t)
    \/ ptr_release(t)
    \/ WeakFromStrong(t)
    \/ WeakCopy(t)
    \/ WeakMove(t)
    \/ WeakDestroy(t)
    \/ WeakAssign(t)
    \/ WeakAssignSwap(t)
    \/ lock(t)
    \/ OptFromStrong(t)
    \/ OptDestroy(t)

Spec == Init /\ [][Next]_vars

\* the same program run by a single thread
InitSeq ==
  /\ Init!1 /\ Init!2 /\ Init!3 /\ Init!4 /\ Init!5
  /\ Init!6 /\ Init!7 /\ Init!8 /\ Init!10
  /\ Init!11 /\ Init!12 /\ Init!13
  /\ Init!14 /\ Init!15 /\ Init!16 /\ Init!17 /\ Init!18
  /\ th = [t \in Threads |-> IF t = 1 THEN IdleTh ELSE OffTh]

SpecSeq == InitSeq /\ [][Next]_vars

\* ------------------------------------------------ the sequential program
\* One thread works on the variables ss and os.  Every operation runs to
\* completion, so ptr_add_ref and ptr_release are applied to the counters as
\* whole functions.
Heap ==
  [sc |-> strong_count, wc |-> weak_count, de |-> destroyed,
   da |-> deallocated, uaf |-> uaf]

SetHeap(h) ==
  /\ strong_count' = h.sc
  /\ weak_count' = h.wc
  /\ destroyed' = h.de
  /\ deallocated' = h.da
  /\ uaf' = h.uaf

\* ptr_add_ref(m_ctrl)
seq_add_ref(h, b) ==
  [h EXCEPT !.sc = ptr_add_ref(h.sc, b), !.uaf = h.uaf \/ h.da[b] > 0]

\* strong_ptr::release: if (m_ctrl) ptr_release(m_ctrl), the whole of it
seq_release(h, b) ==
  IF b = 0 THEN h
  ELSE
    LET old == h.sc[b]
        h1 == [h EXCEPT !.sc = [h.sc EXCEPT ![b] = old - 1],
                        !.uaf = h.uaf \/ h.da[b] > 0]
        h2 == [h1 EXCEPT !.de = destroy_function(h1.de, b, FALSE)]
    IN IF ~WasLastStrong(old) THEN h1
       ELSE IF h2.wc[b] = 0
            THEN [h2 EXCEPT !.da = [h2.da EXCEPT ![b] = @ + 1]]
            ELSE h2

Live(v) == v.ty # "none"

\* make_strong_ptr<U>(alloc, args...): a new block with strong_count 1
seq_make_strong_ptr(d) ==
  /\ ~Live(ss[d])
  /\ nblocks < MaxBlocks
  /\ LET b == nblocks + 1 IN
       /\ nblocks' = b
       /\ strong_count' = [strong_count EXCEPT ![b] = 1]
       /\ weak_count' = [weak_count EXCEPT ![b] = 0]
       /\ ss' = [ss EXCEPT ![d] = [ctrl |-> b, ptr |-> <<b, 0>>, ty |-> "U"]]
  /\ err' = NoErr
  /\ UNCHANGED <<destroyed, deallocated, uaf, os>>
  /\ UNCHANGED <<concvars, facvars, next>>

\* strong_ptr(strong_ptr const&)
copy_ctor(d, s) ==
  /\ ~Live(ss[d]) /\ Live(ss[s])
  /\ ss' = [ss EXCEPT ![d] = ss[s]]
  /\ SetHeap(seq_add_ref(Heap, ss[s].ctrl))
  /\ err' = NoErr
  /\ UNCHANGED <<nblocks, os>>
  /\ UNCHANGED <<concvars, facvars, next>>

\* strong_ptr(strong_ptr<U> const&) for strong_ptr<T>: m_ptr(p_other.m_ptr)
\* converts the pointer
convert_ctor(d, s) ==
  /\ ~Live(ss[d]) /\ ss[s].ty = "U"
  /\ ss' = [ss EXCEPT ![d] = [ctrl |-> ss[s].ctrl,
                              ptr |-> ConvertPtr(ss[s].ptr, "U", "T"),
                              ty |-> "T"]]
  /\ SetHeap(seq_add_ref(Heap, ss[s].ctrl))
  /\ err' = NoErr
  /\ UNCHANGED <<nblocks, os>>
  /\ UNCHANGED <<concvars, facvars, next>>

\* faulty variant: the move constructor transfers: it empties p_other
\* and adds no reference
move_ctor_transfer(d, s) ==
  /\ ~Live(ss[d]) /\ Live(ss[s])
  /\ ss' = [ss EXCEPT ![d] = ss[s],
                      ![s] = [ss[s] EXCEPT !.ctrl = 0, !.ptr = Null]]
  /\ err' = NoErr
  /\ UNCHANGED <<strong_count, weak_count, destroyed, deallocated, uaf,
                 nblocks, os>>
  /\ UNCHANGED <<concvars, facvars, next>>

\* strong_ptr(strong_ptr&&): copies the fields and adds a reference
move_ctor(d, s) ==
  /\ ~Live(ss[d]) /\ Live(ss[s])
  /\ ss' = [ss EXCEPT ![d] = ss[s]]
  /\ SetHeap(seq_add_ref(Heap, ss[s].ctrl))
  /\ err' = NoErr
  /\ UNCHANGED <<nblocks, os>>
  /\ UNCHANGED <<concvars, facvars, next>>

\* faulty variant: the aliasing constructor forgets ptr_add_ref
alias_member_noref(d, s) ==
  /\ ~Live(ss[d]) /\ ss[s].ty = "U"
  /\ ss' = [ss EXCEPT ![d] =
              [ctrl |-> ss[s].ctrl,
               ptr |-> <<ss[s].ptr[1], ss[s].ptr[2] + MemberOff>>,
               ty |-> "E"]]
  /\ err' = NoErr
  /\ UNCHANGED <<strong_count, weak_count, destroyed, deallocated, uaf,
                 nblocks, os>>
  /\ UNCHANGED <<concvars, facvars, next>>

\* strong_ptr(strong_ptr<U> const&, M U::*): m_ptr(&((*p_other).*p_member_ptr))
alias_member(d, s) ==
  /\ ~Live(ss[d]) /\ ss[s].ty = "U"
  /\ ss' = [ss EXCEPT ![d] =
              [ctrl |-> ss[s].ctrl,
               ptr |-> <<ss[s].ptr[1], ss[s].ptr[2] + MemberOff>>,
               ty |-> "E"]]
  /\ SetHeap(seq_add_ref(Heap, ss[s].ctrl))
  /\ err' = NoErr
  /\ UNCHANGED <<nblocks, os>>
  /\ UNCHANGED <<concvars, facvars, next>>

\* faulty variant: the bounds check is off by one
OutOfBounds_above(size, index) == index > size
\* throw_if_out_of_bounds(p_size, p_index): p_index >= p_size
OutOfBounds(size, index) == index >= size

\* faulty variant: the failed bounds check is swallowed and the constructor
\* completes with the default member values
alias_array_null(d, s, i) ==
  /\ ~Live(ss[d]) /\ ss[s].ty = "U"
  /\ IF OutOfBounds(Capacity, i)
     THEN /\ err' = out_of_range(i, Capacity)
          /\ ss' = [ss EXCEPT ![d] = [ctrl |-> 0, ptr |-> Null, ty |-> "E"]]
          /\ UNCHANGED <<strong_count, weak_count, destroyed,
                         deallocated, uaf>>
     ELSE /\ ss' = [ss EXCEPT ![d] =
                      [ctrl |-> ss[s].ctrl,
                       ptr |-> <<ss[s].ptr[1], ss[s].ptr[2] + ElemOff(i)>>,
                       ty |-> "E"]]
          /\ SetHeap(seq_add_ref(Heap, ss[s].ctrl))
          /\ err' = NoErr
  /\ UNCHANGED <<nblocks, os>>
  /\ UNCHANGED <<concvars, facvars, next>>

\* strong_ptr(strong_ptr<U> const&, std::array<E, N> U::*, p_index) and the
\* E (U::*)[N] form: the bounds check, then the fields, then ptr_add_ref.
\* When the check throws, the variable never begins to live.
alias_array(d, s, i) ==
  /\ ~Live(ss[d]) /\ ss[s].ty = "U"
  /\ IF OutOfBounds(Capacity, i)
     THEN /\ err' = out_of_range(i, Capacity)
          /\ UNCHANGED <<ss, strong_count, weak_count, destroyed,
                         deallocated, uaf>>
     ELSE /\ ss' = [ss EXCEPT ![d] =
                      [ctrl |-> ss[s].ctrl,
                       ptr |-> <<ss[s].ptr[1], ss[s].ptr[2] + ElemOff(i)>>,
                       ty |-> "E"]]
          /\ SetHeap(seq_add_ref(Heap, ss[s].ctrl))
          /\ err' = NoErr
  /\ UNCHANGED <<nblocks, os>>
  /\ UNCHANGED <<concvars, facvars, next>>

\* faulty variant: the object is destroyed with the last pointer to the
\* object itself, whatever aliases remain
dtor_parent(s) ==
  /\ Live(ss[s])
  /\ ss' = [ss EXCEPT ![s] = NoVar]
  /\ LET h == seq_release(Heap, ss[s].ctrl)
         b == ss[s].ctrl
         lastParent ==
           /\ ss[s].ptr[2] = 0
           /\ \A x \in StrongVars \ {s} :
                ~(ss[x].ctrl = b /\ ss[x].ptr[2] = 0)
     IN SetHeap(IF lastParent /\ h.de[b] = 0
                THEN [h EXCEPT !.de = destroy_function(h.de, b, FALSE)]
                ELSE h)
  /\ err' = NoErr
  /\ UNCHANGED <<nblocks, os>>
  /\ UNCHANGED <<concvars, facvars, next>>

\* ~strong_ptr: release()
dtor(s) ==
  /\ Live(ss[s])
  /\ ss' = [ss EXCEPT ![s] = NoVar]
  /\ SetHeap(seq_release(Heap, ss[s].ctrl))
  /\ err' = NoErr
  /\ UNCHANGED <<nblocks, os>>
  /\ UNCHANGED <<concvars, facvars, next>>

\* faulty variant: the assignment takes p_other's fields without release()
assign_fields_leak(h, v) == seq_add_ref(h, v.ctrl)

\* the body shared by the assignment operators: release(), take p_other's
\* fields (v, already converted), ptr_add_ref
assign_fields(h, v) == seq_add_ref(seq_release(h, v.old), v.ctrl)

\* operator=(strong_ptr const&): nothing when this == &p_other
copy_assign(d, s) ==
  /\ Live(ss[d]) /\ Live(ss[s]) /\ ss[d].ty = ss[s].ty
  /\ IF d = s
     THEN UNCHANGED <<ss, strong_count, weak_count, destroyed, deallocated,
                      uaf>>
     ELSE /\ ss' = [ss EXCEPT ![d] = ss[s]]
          /\ SetHeap(assign_fields(Heap,
                       [old |-> ss[d].ctrl, ctrl |-> ss[s].ctrl]))
  /\ err' = NoErr
  /\ UNCHANGED <<nblocks, os>>
  /\ UNCHANGED <<concvars, facvars, next>>

\* operator=(strong_ptr&&): the code of the copy assignment
move_assign(d, s) ==
  /\ Live(ss[d]) /\ Live(ss[s]) /\ ss[d].ty = ss[s].ty
  /\ IF d = s
     THEN UNCHANGED <<ss, strong_count, weak_count, destroyed, deallocated,
                      uaf>>
     ELSE /\ ss' = [ss EXCEPT ![d] = ss[s]]
          /\ SetHeap(assign_fields(Heap,
                       [old |-> ss[d].ctrl, ctrl |-> ss[s].ctrl]))
  /\ err' = NoErr
  /\ UNCHANGED <<nblocks, os>>
  /\ UNCHANGED <<concvars, facvars, next>>

\* operator=(strong_ptr<U> const&) of strong_ptr<T>: no self test, the two
\* are objects of different types
convert_assign(d, s) ==
  /\ ss[d].ty = "T" /\ ss[s].ty = "U"
  /\ ss' = [ss EXCEPT ![d] = [ctrl |-> ss[s].ctrl,
                              ptr |-> ConvertPtr(ss[s].ptr, "U", "T"),
                              ty |-> "T"]]
  /\ SetHeap(assign_fields(Heap, [old |-> ss[d].ctrl, ctrl |-> ss[s].ctrl]))
  /\ err' = NoErr
  /\ UNCHANGED <<nblocks, os>>
  /\ UNCHANGED <<concvars, facvars, next>>

\* strong_ptr::swap: both fields are exchanged
strong_swap(a, b) ==
  /\ a # b
  /\ Live(ss[a]) /\ Live(ss[b]) /\ ss[a].ty = ss[b].ty
  /\ ss' = [ss EXCEPT ![a] = ss[b], ![b] = ss[a]]
  /\ err' = NoErr
  /\ UNCHANGED <<strong_count, weak_count, destroyed, deallocated, uaf,
                 nblocks, os>>
  /\ UNCHANGED <<concvars, facvars, next>>

\* optional_ptr::is_engaged: m_raw_ptrs[0] != nullptr || m_raw_ptrs[1] != nullptr
is_engaged(v) == v.ctrl # 0 \/ v.ptr # Null

\* the two words of a disengaged optional_ptr<ty>
Disengaged(ty) == [ctrl |-> 0, ptr |-> Null, ty |-> ty]

\* on optional_ptr<to>: new (&m_value) strong_ptr<from>(value) stores the
\* words of a strong_ptr<from>; m_value reads them as a strong_ptr<to>
PlacementNew(v, to) == [ctrl |-> v.ctrl, ptr |-> v.ptr, ty |-> to]

\* optional_ptr() and optional_ptr(nullptr_t)
opt_default(o) ==
  /\ ~Live(os[o])
  /\ \E ty \in {"U", "T", "E"} : os' = [os EXCEPT ![o] = Disengaged(ty)]
  /\ err' = NoErr
  /\ UNCHANGED <<strong_count, weak_count, destroyed, deallocated, uaf,
                 nblocks, ss>>
  /\ UNCHANGED <<concvars, facvars, next>>

\* optional_ptr(strong_ptr<T> const& value) : m_value(value)
opt_from_strong(o, s) ==
  /\ ~Live(os[o]) /\ Live(ss[s])
  /\ os' = [os EXCEPT ![o] = ss[s]]
  /\ SetHeap(seq_add_ref(Heap, ss[s].ctrl))
  /\ err' = NoErr
  /\ UNCHANGED <<nblocks, ss>>
  /\ UNCHANGED <<concvars, facvars, next>>

\* optional_ptr<T>(strong_ptr<U> const& p_value) { *this = p_value; }: the
\* converting operator= on a disengaged optional_ptr
opt_convert_ctor(o, s) ==
  /\ ~Live(os[o]) /\ ss[s].ty = "U"
  /\ os' = [os EXCEPT ![o] = PlacementNew(ss[s], "T")]
  /\ SetHeap(seq_add_ref(Heap, ss[s].ctrl))
  /\ err' = NoErr
  /\ UNCHANGED <<nblocks, ss>>
  /\ UNCHANGED <<concvars, facvars, next>>

\* optional_ptr::reset, on the heap and on the words
reset_heap(h, v) == IF is_engaged(v) THEN seq_release(h, v.ctrl) ELSE h

\* faulty variant: reset destroys m_value and leaves the words in place
reset_words_keep(v) == v
reset_words(v) == Disengaged(v.ty)

\* operator=(optional_ptr const& other) by its four cases, this != &other;
\* v is *this, w is other
opt_assign_heap(h, v, w) ==
  IF is_engaged(v) /\ is_engaged(w)
  THEN assign_fields(h, [old |-> v.ctrl, ctrl |-> w.ctrl])
  ELSE IF is_engaged(v) THEN reset_heap(h, v)
  ELSE IF is_engaged(w) THEN seq_add_ref(h, w.ctrl)
  ELSE h

opt_assign_words(v, w) ==
  IF is_engaged(v) /\ is_engaged(w) THEN [w EXCEPT !.ty = v.ty]
  ELSE IF is_engaged(v) THEN reset_words(v)
  ELSE IF is_engaged(w) THEN PlacementNew(w, v.ty)
  ELSE v

\* optional_ptr(optional_ptr const& p_other) { *this = p_other; }
opt_copy_ctor(o, p) ==
  /\ ~Live(os[o]) /\ Live(os[p])
  /\ os' = [os EXCEPT ![o] = opt_assign_words(Disengaged(os[p].ty), os[p])]
  /\ SetHeap(opt_assign_heap(Heap, Disengaged(os[p].ty), os[p]))
  /\ err' = NoErr
  /\ UNCHANGED <<nblocks, ss>>
  /\ UNCHANGED <<concvars, facvars, next>>

\* operator=(optional_ptr const& other)
opt_assign(o, p) ==
  /\ Live(os[o]) /\ Live(os[p]) /\ os[o].ty = os[p].ty
  /\ IF o = p
     THEN UNCHANGED <<os, strong_count, weak_count, destroyed, deallocated,
                      uaf>>
     ELSE /\ os' = [os EXCEPT ![o] = opt_assign_words(os[o], os[p])]
          /\ SetHeap(opt_assign_heap(Heap, os[o], os[p]))
  /\ err' = NoErr
  /\ UNCHANGED <<nblocks, ss>>
  /\ UNCHANGED <<concvars, facvars, next>>

\* operator=(strong_ptr<T> const& value): m_value = value when engaged,
\* placement new otherwise
opt_assign_strong(o, s) ==
  /\ Live(os[o]) /\ Live(ss[s]) /\ os[o].ty = ss[s].ty
  /\ os' = [os EXCEPT ![o] = ss[s]]
  /\ SetHeap(IF is_engaged(os[o])
             THEN assign_fields(Heap,
                    [old |-> os[o].ctrl, ctrl |-> ss[s].ctrl])
             ELSE seq_add_ref(Heap, ss[s].ctrl))
  /\ err' = NoErr
  /\ UNCHANGED <<nblocks, ss>>
  /\ UNCHANGED <<concvars, facvars, next>>

\* operator=(strong_ptr<U> const& p_value) of optional_ptr<T>:
\* m_value = p_value when engaged (the pointer is converted),
\* new (&m_value) strong_ptr<U>(p_value) otherwise
opt_assign_convert(o, s) ==
  /\ Live(os[o]) /\ os[o].ty = "T" /\ ss[s].ty = "U"
  /\ IF is_engaged(os[o])
     THEN /\ os' = [os EXCEPT ![o] =
                      [ctrl |-> ss[s].ctrl,
                       ptr |-> ConvertPtr(ss[s].ptr, "U", "T"),
                       ty |-> "T"]]
          /\ SetHeap(assign_fields(Heap,
                       [old |-> os[o].ctrl, ctrl |-> ss[s].ctrl]))
     ELSE /\ os' = [os EXCEPT ![o] = PlacementNew(ss[s], "T")]
          /\ SetHeap(seq_add_ref(Heap, ss[s].ctrl))
  /\ err' = NoErr
  /\ UNCHANGED <<nblocks, ss>>
  /\ UNCHANGED <<concvars, facvars, next>>

\* reset() and operator=(nullptr_t)
opt_reset(o) ==
  /\ Live(os[o])
  /\ os' = [os EXCEPT ![o] =
              IF is_engaged(os[o]) THEN reset_words(os[o]) ELSE os[o]]
  /\ SetHeap(reset_heap(Heap, os[o]))
  /\ err' = NoErr
  /\ UNCHANGED <<nblocks, ss>>
  /\ UNCHANGED <<concvars, facvars, next>>

\* ~optional_ptr: if (is_engaged()) m_value.~strong_ptr<T>()
opt_dtor(o) ==
  /\ Live(os[o])
  /\ os' = [os EXCEPT ![o] = NoVar]
  /\ SetHeap(reset_heap(Heap, os[o]))
  /\ err' = NoErr
  /\ UNCHANGED <<nblocks, ss>>
  /\ UNCHANGED <<concvars, facvars, next>>

\* emplace(strong_ptr<T> const&): reset(), then the copy constructor in place
opt_emplace_copy(o, s) ==
  /\ Live(os[o]) /\ Live(ss[s]) /\ os[o].ty = ss[s].ty
  /\ os' = [os EXCEPT ![o] = ss[s]]
  /\ SetHeap(seq_add_ref(reset_heap(Heap, os[o]), ss[s].ctrl))
  /\ err' = NoErr
  /\ UNCHANGED <<nblocks, ss>>
  /\ UNCHANGED <<concvars, facvars, next>>

\* faulty variant: the bounds are checked before reset(), so a failed
\* emplace leaves the optional_ptr as it was
opt_emplace_alias_checked(o, s, i) ==
  /\ Live(os[o]) /\ os[o].ty = "E" /\ ss[s].ty = "U"
  /\ IF OutOfBounds(Capacity, i)
     THEN /\ err' = out_of_range(i, Capacity)
          /\ UNCHANGED <<os, strong_count, weak_count, destroyed,
                         deallocated, uaf>>
     ELSE /\ os' = [os EXCEPT ![o] =
                      [ctrl |-> ss[s].ctrl,
                       ptr |-> <<ss[s].ptr[1], ss[s].ptr[2] + ElemOff(i)>>,
                       ty |-> "E"]]
          /\ SetHeap(seq_add_ref(reset_heap(Heap, os[o]), ss[s].ctrl))
          /\ err' = NoErr
  /\ UNCHANGED <<nblocks, ss>>
  /\ UNCHANGED <<concvars, facvars, next>>

\* emplace(parent, &U::array, i) on optional_ptr<E>: reset(), then the
\* array aliasing constructor in place, whose bounds check may throw
opt_emplace_alias(o, s, i) ==
  /\ Live(os[o]) /\ os[o].ty = "E" /\ ss[s].ty = "U"
  /\ IF OutOfBounds(Capacity, i)
     THEN /\ os' = [os EXCEPT ![o] =
                      IF is_engaged(os[o]) THEN reset_words(os[o]) ELSE os[o]]
          /\ SetHeap(reset_heap(Heap, os[o]))
          /\ err' = out_of_range(i, Capacity)
     ELSE /\ os' = [os EXCEPT ![o] =
                      [ctrl |-> ss[s].ctrl,
                       ptr |-> <<ss[s].ptr[1], ss[s].ptr[2] + ElemOff(i)>>,
                       ty |-> "E"]]
          /\ SetHeap(seq_add_ref(reset_heap(Heap, os[o]), ss[s].ctrl))
          /\ err' = NoErr
  /\ UNCHANGED <<nblocks, ss>>
  /\ UNCHANGED <<concvars, facvars, next>>

\* faulty variant: the exchange without the temporary: a = b; b = a
std_swap_heap_notmp(h, a, b) ==
  assign_fields(assign_fields(h, [old |-> a, ctrl |-> b]),
                [old |-> b, ctrl |-> b])

\* std::swap(m_value, other.m_value): tmp(move(a)); a = move(b);
\* b = move(tmp); ~tmp, every move being a copy
std_swap_heap(h, a, b) ==
  LET h1 == seq_add_ref(h, a)
      h2 == assign_fields(h1, [old |-> a, ctrl |-> b])
      h3 == assign_fields(h2, [old |-> b, ctrl |-> a])
  IN seq_release(h3, a)

\* optional_ptr::swap by its cases
opt_swap(o, p) ==
  /\ o # p
  /\ Live(os[o]) /\ Live(os[p]) /\ os[o].ty = os[p].ty
  /\ LET v == os[o]
         w == os[p]
     IN
     IF is_engaged(v) /\ is_engaged(w)
     THEN /\ os' = [os EXCEPT ![o] = w, ![p] = v]
          /\ SetHeap(std_swap_heap(Heap, v.ctrl, w.ctrl))
     ELSE IF is_engaged(v)
     THEN \* new (&other.m_value) strong_ptr<T>(std::move(m_value)); reset();
          /\ os' = [os EXCEPT ![p] = v, ![o] = reset_words(v)]
          /\ SetHeap(reset_heap(seq_add_ref(Heap, v.ctrl), v))
     ELSE IF is_engaged(w)
     THEN /\ os' = [os EXCEPT ![o] = w, ![p] = reset_words(w)]
          /\ SetHeap(reset_heap(seq_add_ref(Heap, w.ctrl), w))
     ELSE UNCHANGED <<os, strong_count, weak_count, destroyed, deallocated,
                      uaf>>
  /\ err' = NoErr
  /\ UNCHANGED <<nblocks, ss>>
  /\ UNCHANGED <<concvars, facvars, next>>

\* faulty variant: value() hands out m_value without the test
value_throws_never(v) == FALSE
\* value(): if (!is_engaged()) safe_throw(bad_optional_ptr_access(this))
value_throws(v) == ~is_engaged(v)

\* value(), operator* and operator->, the last two being *(this->value())
opt_value(o) ==
  /\ Live(os[o])
  /\ err' = IF value_throws(os[o]) THEN bad_optional_ptr_access ELSE NoErr
  /\ uaf' = (uaf \/ (~value_throws(os[o]) /\ ~is_engaged(os[o])))
  /\ UNCHANGED <<strong_count, weak_count, destroyed, deallocated,
                 nblocks, ss, os>>
  /\ UNCHANGED <<concvars, facvars, next>>

\* faulty variant: the conversion gives the reference away and leaves the
\* optional_ptr disengaged
opt_to_strong_steal(d, o) ==
  /\ ~Live(ss[d]) /\ Live(os[o])
  /\ IF value_throws(os[o])
     THEN /\ err' = bad_optional_ptr_access
          /\ UNCHANGED <<ss, os>>
     ELSE /\ ss' = [ss EXCEPT ![d] = os[o]]
          /\ os' = [os EXCEPT ![o] = Disengaged(os[o].ty)]
          /\ err' = NoErr
  /\ UNCHANGED <<strong_count, weak_count, destroyed, deallocated, uaf,
                 nblocks>>
  /\ UNCHANGED <<concvars, facvars, next>>

\* operator strong_ptr<T>(): return value(); the copy adds a reference
opt_to_strong(d, o) ==
  /\ ~Live(ss[d]) /\ Live(os[o])
  /\ IF value_throws(os[o])
     THEN /\ err' = bad_optional_ptr_access
          /\ UNCHANGED <<ss, strong_count, weak_count, destroyed,
                         deallocated, uaf>>
     ELSE /\ ss' = [ss EXCEPT ![d] = os[o]]
          /\ SetHeap(seq_add_ref(Heap, os[o].ctrl))
          /\ err' = NoErr
  /\ UNCHANGED <<nblocks, os>>
  /\ UNCHANGED <<concvars, facvars, next>>

\* operator strong_ptr<T>() of optional_ptr<U>: the is_engaged test, then
\* strong_ptr<T>(m_value), which converts the pointer
opt_to_strong_convert(d, o) ==
  /\ ~Live(ss[d]) /\ os[o].ty = "U"
  /\ IF ~is_engaged(os[o])
     THEN /\ err' = bad_optional_ptr_access
          /\ UNCHANGED <<ss, strong_count, weak_count, destroyed,
                         deallocated, uaf>>
     ELSE /\ ss' = [ss EXCEPT ![d] =
                      [ctrl |-> os[o].ctrl,
                       ptr |-> ConvertPtr(os[o].ptr, "U", "T"),
                       ty |-> "T"]]
          /\ SetHeap(seq_add_ref(Heap, os[o].ctrl))
          /\ err' = NoErr
  /\ UNCHANGED <<nblocks, os>>
  /\ UNCHANGED <<concvars, facvars, next>>

\* optional_ptr::has_value
has_value(v) == is_engaged(v)

\* T* == U*: both operands are brought to the common pointer type
ptr_eq(v, w) ==
  IF Convertible(v.ty, w.ty)
  THEN ConvertPtr(v.ptr, v.ty, w.ty) = w.ptr
  ELSE v.ptr = ConvertPtr(w.ptr, w.ty, v.ty)

\* faulty variant: two engaged optional_ptrs are compared by control block
opt_eq_ctrl(v, w) ==
  IF ~has_value(v) /\ ~has_value(w) THEN TRUE
  ELSE IF has_value(v) # has_value(w) THEN FALSE
  ELSE v.ctrl = w.ctrl

\* operator==(optional_ptr<T> const&, optional_ptr<U> const&)
opt_eq(v, w) ==
  IF ~has_value(v) /\ ~has_value(w) THEN TRUE
  ELSE IF has_value(v) # has_value(w) THEN FALSE
  ELSE ptr_eq(v, w)

\* operator!=(optional_ptr<T> const&, optional_ptr<U> const&)
opt_ne(v, w) == ~opt_eq(v, w)

\* operator==(optional_ptr, nullptr_t), operator==(nullptr_t, optional_ptr)
opt_eq_null(v) == ~has_value(v)
null_eq_opt(v) == ~has_value(v)

\* operator!=(optional_ptr, nullptr_t), operator!=(nullptr_t, optional_ptr)
opt_ne_null(v) == has_value(v)
null_ne_opt(v) == has_value(v)

\* faulty variant: two strong_ptrs are compared by control block
strong_eq_ctrl(v, w) == v.ctrl = w.ctrl

\* operator==(strong_ptr<T> const&, strong_ptr<U> const&):
\* p_lhs.operator->() == p_rhs.operator->()
strong_eq(v, w) == ptr_eq(v, w)

\* operator!=(strong_ptr<T> const&, strong_ptr<U> const&)
strong_ne(v, w) == ~strong_eq(v, w)

\* the array indices tried: every valid one and two that are out of bounds
Indices == 0..(Capacity + 1)

NextObj ==
  \/ \E d \in StrongVars : seq_make_strong_ptr(d)
  \/ \E d \in StrongVars, s \in StrongVars : copy_ctor(d, s)
  \/ \E d \in StrongVars, s \in StrongVars : convert_ctor(d, s)
  \/ \E d \in StrongVars, s \in StrongVars : move_ctor(d, s)
  \/ \E d \in StrongVars, s \in StrongVars : alias_member(d, s)
  \/ \E d \in StrongVars, s \in StrongVars, i \in Indices :
       alias_array(d, s, i)
  \/ \E s \in StrongVars : dtor(s)
  \/ \E d \in StrongVars, s \in StrongVars : copy_assign(d, s)
  \/ \E d \in StrongVars, s \in StrongVars : move_assign(d, s)
  \/ \E d \in StrongVars, s \in StrongVars : convert_assign(d, s)
  \/ \E a \in StrongVars, b \in StrongVars : strong_swap(a, b)
  \/ \E o \in OptVars : opt_default(o)
  \/ \E o \in OptVars, s \in StrongVars : opt_from_strong(o, s)
  \/ \E o \in OptVars, s \in StrongVars : opt_convert_ctor(o, s)
  \/ \E o \in OptVars, p \in OptVars : opt_copy_ctor(o, p)
  \/ \E o \in OptVars, p \in OptVars : opt_assign(o, p)
  \/ \E o \in OptVars, s \in StrongVars : opt_assign_strong(o, s)
  \/ \E o \in OptVars, s \in StrongVars : opt_assign_convert(o, s)
  \/ \E o \in OptVars : opt_reset(o)
  \/ \E o \in OptVars : opt_dtor(o)
  \/ \E o \in OptVars, s \in StrongVars : opt_emplace_copy(o, s)
  \/ \E o \in OptVars, s \in StrongVars, i \in Indices :
       opt_emplace_alias(o, s, i)
  \/ \E o \in OptVars, p \in OptVars : opt_swap(o, p)
  \/ \E o \in OptVars : opt_value(o)
  \/ \E d \in StrongVars, o \in OptVars : opt_to_strong(d, o)
  \/ \E d \in StrongVars, o \in OptVars : opt_to_strong_convert(d, o)

SpecObj == Init /\ [][NextObj]_vars

\* ------------------------------------- the program that creates the objects
\* One thread creates objects through make_strong_ptr and lets them die.
\* new_object and destroy_function are cut where the constructor and the
\* destructor of the object run, so that the member functions the object
\* calls on itself from there are steps of the program.
SetHeapMem(h) ==
  /\ SetHeap(h)
  /\ mem' = mem - (Total(h.da) - Total(deallocated))

\* ptr_add_weak(m_ctrl)
seq_add_weak(h, b) ==
  [h EXCEPT !.wc = ptr_add_weak(h.wc, b), !.uaf = h.uaf \/ h.da[b] > 0]

\* ~weak_ptr: if (m_ctrl) ptr_release_weak(m_ctrl), the whole of it
seq_release_weak(h, b) ==
  IF b = 0 THEN h
  ELSE
    LET old == h.wc[b]
        h1 == [h EXCEPT !.wc = [h.wc EXCEPT ![b] = old - 1],
                        !.uaf = h.uaf \/ h.da[b] > 0]
    IN IF WasLastWeak(old) /\ h1.sc[b] = 0
       THEN [h1 EXCEPT !.de = destroy_function(h1.de, b, TRUE),
                       !.da = [h1.da EXCEPT ![b] = @ + 1]]
       ELSE h1

\* weak_ptr::lock of the weak_ptr w run by the only thread: the first
\* compare-exchange succeeds; obj is copied into the optional_ptr returned
\* and destroyed
seq_lock(h, w) ==
  IF w.ctrl = 0 THEN [h |-> h, engaged |-> FALSE]
  ELSE IF h.sc[w.ctrl] = 0
  THEN [h |-> [h EXCEPT !.uaf = h.uaf \/ h.da[w.ctrl] > 0],
        engaged |-> FALSE]
  ELSE [h |-> seq_release(seq_add_ref(seq_add_ref(h, w.ctrl), w.ctrl),
                          w.ctrl),
        engaged |-> TRUE]

\* strong_ptr::release of a variable of block b: the fetch_sub of
\* ptr_release; when it returns 1, destroy_function enters ~T()
StartRelease(b) ==
  /\ strong_count' = [strong_count EXCEPT ![b] = @ - 1]
  /\ uaf' = (uaf \/ Touch(b))
  /\ IF WasLastStrong(strong_count[b])
     THEN /\ fac' = [pc |-> "dtor", b |-> b, d |-> 0]
          /\ objs' = [objs EXCEPT ![b].phase = "dtor"]
     ELSE UNCHANGED <<fac, objs>>
  /\ UNCHANGED <<weak_count, destroyed, deallocated, mem, nblocks>>

\* make_strong_ptr<T>(p_alloc, p_args...) up to the constructor of T:
\* new_object allocates (or throws std::bad_alloc) and rc<T>'s constructor
\* initialises m_info; k is T
fac_alloc(d, k) ==
  /\ fac.pc = "idle" /\ ~Live(ss[d])
  /\ nblocks < MaxBlocks
  /\ \E ok \in BOOLEAN :
       IF ok
       THEN LET b == nblocks + 1 IN
            /\ nblocks' = b
            /\ mem' = mem + 1
            /\ strong_count' = [strong_count EXCEPT ![b] = 1]
            /\ weak_count' = [weak_count EXCEPT ![b] = 0]
            /\ objs' = [objs EXCEPT ![b] =
                          [kind |-> k, phase |-> "ctor",
                           weak_this |-> EmptyWeak]]
            /\ fac' = [pc |-> "ctor", b |-> b, d |-> d]
            /\ err' = NoErr
       ELSE /\ err' = bad_alloc
            /\ UNCHANGED <<strong_count, weak_count, nblocks, objs, mem, fac>>
  /\ UNCHANGED <<destroyed, deallocated, uaf, ss, os, ws>>
  /\ UNCHANGED <<concvars, next>>

\* faulty variant: the copy constructor of the mixin copies m_weak_this
mixin_copy_ctor_copies(w) == w
\* enable_strong_from_this(enable_strong_from_this const&): m_weak_this is
\* default-initialised
mixin_copy_ctor(w) == EmptyWeak

\* faulty variant: the assignment operator of the mixin assigns m_weak_this
mixin_assign_copies(mine, other) == other
\* enable_strong_from_this::operator=: m_weak_this is kept
mixin_assign(mine, other) == mine

\* the objects *src a constructor may be handed to copy: NoSrc for the
\* other constructors
NoSrc == MaxBlocks + 1
Sources(k) ==
  {NoSrc} \cup {x \in ObjIds : objs[x].phase = "alive" /\ objs[x].kind = k}

\* the constructor of T returns: m_object is built, from *src when the
\* copy constructor was asked for
fac_ctor_ok(src) ==
  /\ fac.pc = "ctor"
  /\ src \in Sources(objs[fac.b].kind)
  /\ objs' = [objs EXCEPT
                ![fac.b].phase = "built",
                ![fac.b].weak_this =
                   IF src = NoSrc THEN EmptyWeak
                   ELSE mixin_copy_ctor(objs[src].weak_this)]
  /\ fac' = [fac EXCEPT !.pc = "wire"]
  /\ err' = NoErr
  /\ UNCHANGED <<strong_count, weak_count, destroyed, deallocated, uaf,
                 nblocks, mem, ss, os, ws>>
  /\ UNCHANGED <<concvars, next>>

\* faulty variant: new_object lets the exception pass without returning
\* the memory
fac_ctor_throw_leak(e) ==
  /\ fac.pc = "ctor"
  /\ e \in {ctor_error}
  /\ nblocks' = nblocks - 1
  /\ strong_count' = [strong_count EXCEPT ![fac.b] = 0]
  /\ weak_count' = [weak_count EXCEPT ![fac.b] = 0]
  /\ objs' = [objs EXCEPT ![fac.b] = NoObj]
  /\ fac' = IdleFac
  /\ err' = e
  /\ UNCHANGED <<mem, destroyed, deallocated, uaf, ss, os, ws>>
  /\ UNCHANGED <<concvars, next>>

\* the constructor of T throws e, an exception of its own or the
\* bad_weak_ptr of a strong_from_this() it has called: new_object returns
\* the memory and rethrows; make_strong_ptr has no handler
fac_ctor_throw(e) ==
  /\ fac.pc = "ctor"
  /\ e \in {ctor_error} \cup (IF err = bad_weak_ptr THEN {err} ELSE {})
  /\ nblocks' = nblocks - 1
  /\ mem' = mem - 1
  /\ strong_count' = [strong_count EXCEPT ![fac.b] = 0]
  /\ weak_count' = [weak_count EXCEPT ![fac.b] = 0]
  /\ objs' = [objs EXCEPT ![fac.b] = NoObj]
  /\ fac' = IdleFac
  /\ err' = e
  /\ UNCHANGED <<destroyed, deallocated, uaf, ss, os, ws>>
  /\ UNCHANGED <<concvars, next>>

\* faulty variant: the Factory returns without init_weak_this
fac_return_nowire ==
  /\ fac.pc = "wire"
  /\ ss' = [ss EXCEPT ![fac.d] =
              [ctrl |-> fac.b, ptr |-> <<fac.b, 0>>, ty |-> "U"]]
  /\ objs' = [objs EXCEPT ![fac.b].phase = "alive"]
  /\ SetHeapMem(Heap)
  /\ fac' = IdleFac
  /\ err' = NoErr
  /\ UNCHANGED <<nblocks, os, ws>>
  /\ UNCHANGED <<concvars, next>>

\* faulty variant: result is built by the copy constructor's rule, with a
\* reference added
fac_return_addref ==
  /\ fac.pc = "wire"
  /\ ss' = [ss EXCEPT ![fac.d] =
              [ctrl |-> fac.b, ptr |-> <<fac.b, 0>>, ty |-> "U"]]
  /\ objs' = [objs EXCEPT ![fac.b].phase = "alive"]
  /\ SetHeapMem(seq_add_ref(Heap, fac.b))
  /\ fac' = IdleFac
  /\ err' = NoErr
  /\ UNCHANGED <<nblocks, os, ws>>
  /\ UNCHANGED <<concvars, next>>

\* strong_ptr<T> result(&obj->m_info, &obj->m_object) (no reference is
\* added: the 1 of the new ref_info is result's);
\* result->init_weak_this(result) when enable_strong_from_this<T> is a base
\* of T: m_weak_this = p_self is weak_ptr(p_self).swap(m_weak_this);
\* return result
fac_return ==
  /\ fac.pc = "wire"
  /\ LET b == fac.b
         result == [ctrl |-> b, ptr |-> <<b, 0>>, ty |-> "U"]
     IN
     /\ ss' = [ss EXCEPT ![fac.d] = result]
     /\ IF IsBaseOfMixin(objs[b].kind)
        THEN /\ objs' = [objs EXCEPT
                           ![b].phase = "alive",
                           ![b].weak_this =
                              [ctrl |-> result.ctrl, ptr |-> result.ptr]]
             /\ SetHeapMem(seq_release_weak(seq_add_weak(Heap, b),
                                            objs[b].weak_this.ctrl))
        ELSE /\ objs' = [objs EXCEPT ![b].phase = "alive"]
             /\ SetHeapMem(Heap)
  /\ fac' = IdleFac
  /\ err' = NoErr
  /\ UNCHANGED <<nblocks, os, ws>>
  /\ UNCHANGED <<concvars, next>>

\* the rest of ptr_release once the fetch_sub has returned 1:
\* destroy_function runs ~T(), which destroys m_weak_this with the other
\* members and bases; the memory is returned if weak_count is 0 then
fac_destroy ==
  /\ fac.pc = "dtor"
  /\ LET b == fac.b
         h1 == [Heap EXCEPT !.de = destroy_function(destroyed, b, FALSE)]
         h2 == IF HasMixin(objs[b].kind)
               THEN seq_release_weak(h1, objs[b].weak_this.ctrl)
               ELSE h1
         h3 == [h2 EXCEPT !.uaf = h2.uaf \/ h2.da[b] > 0]
     IN SetHeapMem(IF h3.wc[b] = 0
                   THEN [h3 EXCEPT !.da = [h3.da EXCEPT ![b] = @ + 1]]
                   ELSE h3)
  /\ objs' = [objs EXCEPT ![fac.b] = NoObj]
  /\ fac' = IdleFac
  /\ UNCHANGED <<nblocks, ss, os, ws, err>>
  /\ UNCHANGED <<concvars, next>>

\* strong_ptr(strong_ptr const&)
fac_copy(d, s) ==
  /\ fac.pc = "idle"
  /\ copy_ctor(d, s)

\* ~strong_ptr
fac_strong_dtor(s) ==
  /\ fac.pc = "idle" /\ Live(ss[s])
  /\ ss' = [ss EXCEPT ![s] = NoVar]
  /\ StartRelease(ss[s].ctrl)
  /\ err' = NoErr
  /\ UNCHANGED <<os, ws>>
  /\ UNCHANGED <<concvars, next>>

\* ~optional_ptr
fac_opt_dtor(o) ==
  /\ fac.pc = "idle" /\ Live(os[o])
  /\ os' = [os EXCEPT ![o] = NoVar]
  /\ IF is_engaged(os[o])
     THEN StartRelease(os[o].ctrl)
     ELSE UNCHANGED <<strong_count, weak_count, destroyed, deallocated,
                      uaf, mem, nblocks, fac, objs>>
  /\ err' = NoErr
  /\ UNCHANGED <<ss, ws>>
  /\ UNCHANGED <<concvars, next>>

\* weak_ptr() noexcept = default
weak_default(w) ==
  /\ fac.pc = "idle" /\ ~Live(ws[w])
  /\ ws' = [ws EXCEPT ![w] = [ctrl |-> 0, ptr |-> Null, ty |-> "U"]]
  /\ err' = NoErr
  /\ UNCHANGED <<strong_count, weak_count, destroyed, deallocated, uaf,
                 nblocks, mem, ss, os, objs, fac>>
  /\ UNCHANGED <<concvars, next>>

\* weak_ptr(strong_ptr<T> const&)
weak_from_strong(w, s) ==
  /\ fac.pc = "idle" /\ ~Live(ws[w]) /\ Live(ss[s])
  /\ ws' = [ws EXCEPT ![w] = ss[s]]
  /\ SetHeapMem(IF ss[s].ctrl # 0 THEN seq_add_weak(Heap, ss[s].ctrl)
                ELSE Heap)
  /\ err' = NoErr
  /\ UNCHANGED <<nblocks, ss, os, objs, fac>>
  /\ UNCHANGED <<concvars, next>>

\* weak_ptr(weak_ptr const&)
weak_copy(w, v) ==
  /\ fac.pc = "idle" /\ ~Live(ws[w]) /\ Live(ws[v])
  /\ ws' = [ws EXCEPT ![w] = ws[v]]
  /\ SetHeapMem(IF ws[v].ctrl # 0 THEN seq_add_weak(Heap, ws[v].ctrl)
                ELSE Heap)
  /\ err' = NoErr
  /\ UNCHANGED <<nblocks, ss, os, objs, fac>>
  /\ UNCHANGED <<concvars, next>>

\* faulty variant: the destructor releases without testing m_ctrl
weak_dtor_blind(w) ==
  /\ fac.pc = "idle" /\ Live(ws[w])
  /\ ws' = [ws EXCEPT ![w] = NoVar]
  /\ LET b == IF ws[w].ctrl = 0 THEN 1 ELSE ws[w].ctrl IN
       SetHeapMem([Heap EXCEPT !.wc = [weak_count EXCEPT ![b] = @ - 1]])
  /\ err' = NoErr
  /\ UNCHANGED <<nblocks, ss, os, objs, fac>>
  /\ UNCHANGED <<concvars, next>>

\* ~weak_ptr: if (m_ctrl) ptr_release_weak(m_ctrl)
weak_dtor(w) ==
  /\ fac.pc = "idle" /\ Live(ws[w])
  /\ ws' = [ws EXCEPT ![w] = NoVar]
  /\ SetHeapMem(seq_release_weak(Heap, ws[w].ctrl))
  /\ err' = NoErr
  /\ UNCHANGED <<nblocks, ss, os, objs, fac>>
  /\ UNCHANGED <<concvars, next>>

\* the fields of a weak_ptr whose m_ctrl and m_ptr have been set to nullptr
Emptied(v) == [v EXCEPT !.ctrl = 0, !.ptr = Null]

\* faulty variant: the move constructor copies: it adds a weak reference
\* and leaves p_other as it was
weak_move_ctor_copy(w, v) ==
  /\ fac.pc = "idle" /\ ~Live(ws[w]) /\ Live(ws[v])
  /\ ws' = [ws EXCEPT ![w] = ws[v]]
  /\ SetHeapMem(IF ws[v].ctrl # 0 THEN seq_add_weak(Heap, ws[v].ctrl)
                ELSE Heap)
  /\ err' = NoErr
  /\ UNCHANGED <<nblocks, ss, os, objs, fac>>
  /\ UNCHANGED <<concvars, next>>

\* weak_ptr(weak_ptr&& p_other): takes the fields, then p_other.m_ctrl =
\* nullptr, p_other.m_ptr = nullptr; no counter is touched
weak_move_ctor(w, v) ==
  /\ fac.pc = "idle" /\ ~Live(ws[w]) /\ Live(ws[v])
  /\ ws' = [ws EXCEPT ![w] = ws[v], ![v] = Emptied(ws[v])]
  /\ err' = NoErr
  /\ UNCHANGED <<strong_count, weak_count, destroyed, deallocated, uaf,
                 nblocks, mem, ss, os, objs, fac>>
  /\ UNCHANGED <<concvars, next>>

\* weak_ptr::swap: std::swap of m_ctrl and of m_ptr
weak_swap(w, v) ==
  /\ fac.pc = "idle" /\ Live(ws[w]) /\ Live(ws[v])
  /\ ws' = [ws EXCEPT ![w] = ws[v], ![v] = ws[w]]
  /\ err' = NoErr
  /\ UNCHANGED <<strong_count, weak_count, destroyed, deallocated, uaf,
                 nblocks, mem, ss, os, objs, fac>>
  /\ UNCHANGED <<concvars, next>>

\* faulty variant: the assignment overwrites the fields of *this without
\* releasing the reference they held
weak_assign_overwrite(w, v) ==
  /\ fac.pc = "idle" /\ Live(ws[w]) /\ Live(ws[v])
  /\ ws' = [ws EXCEPT ![w] = ws[v]]
  /\ SetHeapMem(IF ws[v].ctrl # 0 THEN seq_add_weak(Heap, ws[v].ctrl)
                ELSE Heap)
  /\ err' = NoErr
  /\ UNCHANGED <<nblocks, ss, os, objs, fac>>
  /\ UNCHANGED <<concvars, next>>

\* operator=(weak_ptr const& p_other): weak_ptr(p_other).swap(*this); the
\* temporary adds a reference to p_other's block, takes the old fields of
\* *this in the swap and releases them in its destructor (w = v included)
weak_assign(w, v) ==
  /\ fac.pc = "idle" /\ Live(ws[w]) /\ Live(ws[v])
  /\ LET tmp == ws[v]
         h1 == IF tmp.ctrl # 0 THEN seq_add_weak(Heap, tmp.ctrl) ELSE Heap
         old == ws[w]
     IN /\ ws' = [ws EXCEPT ![w] = tmp]
        /\ SetHeapMem(seq_release_weak(h1, old.ctrl))
  /\ err' = NoErr
  /\ UNCHANGED <<nblocks, ss, os, objs, fac>>
  /\ UNCHANGED <<concvars, next>>

\* operator=(weak_ptr&& p_other): weak_ptr(std::move(p_other)).swap(*this);
\* the temporary takes p_other's fields and empties it, then takes the
\* fields *this has at that moment (the emptied ones when this is p_other)
\* and releases them
weak_move_assign(w, v) ==
  /\ fac.pc = "idle" /\ Live(ws[w]) /\ Live(ws[v])
  /\ LET tmp == ws[v]
         ws1 == [ws EXCEPT ![v] = Emptied(ws[v])]
         old == ws1[w]
     IN /\ ws' = [ws1 EXCEPT ![w] = tmp]
        /\ SetHeapMem(seq_release_weak(Heap, old.ctrl))
  /\ err' = NoErr
  /\ UNCHANGED <<nblocks, ss, os, objs, fac>>
  /\ UNCHANGED <<concvars, next>>

\* operator=(strong_ptr<T> const& p_strong): weak_ptr(p_strong).swap(*this)
weak_assign_strong(w, s) ==
  /\ fac.pc = "idle" /\ Live(ws[w]) /\ Live(ss[s])
  /\ LET tmp == ss[s]
         h1 == IF tmp.ctrl # 0 THEN seq_add_weak(Heap, tmp.ctrl) ELSE Heap
         old == ws[w]
     IN /\ ws' = [ws EXCEPT ![w] = tmp]
        /\ SetHeapMem(seq_release_weak(h1, old.ctrl))
  /\ err' = NoErr
  /\ UNCHANGED <<nblocks, ss, os, objs, fac>>
  /\ UNCHANGED <<concvars, next>>

\* optional_ptr<T> o = w.lock()
weak_lock(o, w) ==
  /\ fac.pc = "idle" /\ ~Live(os[o]) /\ Live(ws[w])
  /\ LET r == seq_lock(Heap, ws[w]) IN
       /\ os' = [os EXCEPT ![o] = IF r.engaged THEN ws[w]
                                  ELSE Disengaged(ws[w].ty)]
       /\ SetHeapMem(r.h)
  /\ err' = NoErr
  /\ UNCHANGED <<nblocks, ss, ws, objs, fac>>
  /\ UNCHANGED <<concvars, next>>

\* a member function of object x can be called: by its own constructor or
\* destructor while that runs, by the program once the object is alive
CanCall(x) ==
  IF fac.pc = "idle" THEN objs[x].phase = "alive"
  ELSE fac.pc \in {"ctor", "dtor"} /\ x = fac.b

\* faulty variant: strong_from_this builds the strong_ptr from the object's
\* own address and control block without locking m_weak_this
strong_from_this_unchecked(d, x) ==
  /\ ~Live(ss[d]) /\ HasMixin(objs[x].kind)
  /\ CanCall(x)
  /\ x # Auto
  /\ ss' = [ss EXCEPT ![d] = [ctrl |-> x, ptr |-> <<x, 0>>, ty |-> "U"]]
  /\ SetHeapMem(seq_add_ref(Heap, x))
  /\ err' = NoErr
  /\ UNCHANGED <<nblocks, os, ws, objs, fac>>
  /\ UNCHANGED <<concvars, next>>

\* d = x.strong_from_this(): locked = m_weak_this.lock(); bad_weak_ptr if
\* !locked; return locked.value() (a copy; locked is destroyed next)
strong_from_this(d, x) ==
  /\ ~Live(ss[d]) /\ HasMixin(objs[x].kind)
  /\ CanCall(x)
  /\ LET w == objs[x].weak_this
         r == seq_lock(Heap, w)
     IN IF r.engaged
        THEN /\ ss' = [ss EXCEPT ![d] =
                         [ctrl |-> w.ctrl, ptr |-> w.ptr, ty |-> "U"]]
             /\ SetHeapMem(seq_release(seq_add_ref(r.h, w.ctrl), w.ctrl))
             /\ err' = NoErr
        ELSE /\ err' = bad_weak_ptr
             /\ SetHeapMem(r.h)
             /\ UNCHANGED ss
  /\ UNCHANGED <<nblocks, os, ws, objs, fac>>
  /\ UNCHANGED <<concvars, next>>

\* w = x.weak_from_this(): return m_weak_this (a copy)
weak_from_this(w, x) ==
  /\ ~Live(ws[w]) /\ HasMixin(objs[x].kind)
  /\ CanCall(x)
  /\ LET m == objs[x].weak_this IN
       /\ ws' = [ws EXCEPT ![w] = [ctrl |-> m.ctrl, ptr |-> m.ptr,
                                   ty |-> "U"]]
       /\ SetHeapMem(IF m.ctrl # 0 THEN seq_add_weak(Heap, m.ctrl) ELSE Heap)
  /\ err' = NoErr
  /\ UNCHANGED <<nblocks, ss, os, objs, fac>>
  /\ UNCHANGED <<concvars, next>>

\* T x(args...) or T x(*src) with automatic storage, for a class with the
\* mixin: no control block
auto_ctor(k, src) ==
  /\ fac.pc = "idle" /\ objs[Auto].phase = "none"
  /\ HasMixin(k)
  /\ src \in Sources(k)
  /\ objs' = [objs EXCEPT ![Auto] =
                [kind |-> k, phase |-> "alive",
                 weak_this |-> IF src = NoSrc THEN EmptyWeak
                               ELSE mixin_copy_ctor(objs[src].weak_this)]]
  /\ err' = NoErr
  /\ UNCHANGED <<strong_count, weak_count, destroyed, deallocated, uaf,
                 nblocks, mem, ss, os, ws, fac>>
  /\ UNCHANGED <<concvars, next>>

\* the end of the automatic object's scope: ~T() destroys m_weak_this
auto_dtor ==
  /\ fac.pc = "idle" /\ objs[Auto].phase = "alive"
  /\ objs' = [objs EXCEPT ![Auto] = NoObj]
  /\ SetHeapMem(IF HasMixin(objs[Auto].kind)
                THEN seq_release_weak(Heap, objs[Auto].weak_this.ctrl)
                ELSE Heap)
  /\ err' = NoErr
  /\ UNCHANGED <<nblocks, ss, os, ws, fac>>
  /\ UNCHANGED <<concvars, next>>

\* *x = *y for two objects of one class with the mixin
obj_assign(x, y) ==
  /\ fac.pc = "idle" /\ x # y
  /\ objs[x].phase = "alive" /\ objs[y].phase = "alive"
  /\ objs[x].kind = objs[y].kind /\ HasMixin(objs[x].kind)
  /\ objs' = [objs EXCEPT ![x].weak_this =
                mixin_assign(objs[x].weak_this, objs[y].weak_this)]
  /\ err' = NoErr
  /\ UNCHANGED <<strong_count, weak_count, destroyed, deallocated, uaf,
                 nblocks, mem, ss, os, ws, fac>>
  /\ UNCHANGED <<concvars, next>>

NextFac ==
  \/ \E d \in StrongVars, k \in Kinds : fac_alloc(d, k)
  \/ \E src \in ObjIds \cup {NoSrc} : fac_ctor_ok(src)
  \/ \E e \in {ctor_error, bad_weak_ptr} : fac_ctor_throw(e)
  \/ fac_return
  \/ fac_destroy
  \/ \E d \in StrongVars, s \in StrongVars : fac_copy(d, s)
  \/ \E s \in StrongVars : fac_strong_dtor(s)
  \/ \E o \in LockVars : fac_opt_dtor(o)
  \/ \E w \in WeakVars : weak_default(w)
  \/ \E w \in WeakVars, s \in StrongVars : weak_from_strong(w, s)
  \/ \E w \in WeakVars, v \in WeakVars : weak_copy(w, v)
  \/ \E w \in WeakVars, v \in WeakVars : weak_move_ctor(w, v)
  \/ \E w \in WeakVars, v \in WeakVars : weak_swap(w, v)
  \/ \E w \in WeakVars, v \in WeakVars : weak_assign(w, v)
  \/ \E w \in WeakVars, v \in WeakVars : weak_move_assign(w, v)
  \/ \E w \in WeakVars, s \in StrongVars : weak_assign_strong(w, s)
  \/ \E w \in WeakVars : weak_dtor(w)
  \/ \E o \in LockVars, w \in WeakVars : weak_lock(o, w)
  \/ \E d \in StrongVars, x \in ObjIds : strong_from_this(d, x)
  \/ \E w \in WeakVars, x \in ObjIds : weak_from_this(w, x)
  \/ \E k \in Kinds, src \in ObjIds \cup {NoSrc} : auto_ctor(k, src)
  \/ auto_dtor
  \/ \E x \in ObjIds, y \in ObjIds : obj_assign(x, y)

SpecFac == Init /\ [][NextFac]_vars

\* ------------------------------------ objects that hold a strong_ptr
\* The objects of this program are of a class T with a member
\* optional_ptr<T> next, whose m_value is a strong_ptr stored inside the
\* object and handed out by reference by value().  next[b] is the control
\* block the member of object b references, 0 while it is disengaged.
\* ~T() destroys the member, so ptr_release of one block can release others.  Every operation runs to
\* completion; a run is followed up to its first access to a destroyed
\* object or a freed control block.
NodeVar(b) == [ctrl |-> b, ptr |-> <<b, 0>>, ty |-> "U"]

\* strong_ptr::release of a reference to block b with the members nx:
\* ptr_release in full; destroy_function runs ~T(), which releases the
\* member of the object before the memory is returned
RECURSIVE node_release(_, _, _)
node_release(h, nx, b) ==
  IF b = 0 THEN [h |-> h, nx |-> nx]
  ELSE
    LET old == h.sc[b]
        h1 == [h EXCEPT !.sc = [h.sc EXCEPT ![b] = old - 1],
                        !.uaf = h.uaf \/ h.da[b] > 0]
    IN IF ~WasLastStrong(old) THEN [h |-> h1, nx |-> nx]
       ELSE
         LET h2 == [h1 EXCEPT !.de = destroy_function(h1.de, b, FALSE)]
             r == node_release(h2, [nx EXCEPT ![b] = 0], nx[b])
             h3 == [r.h EXCEPT !.uaf = r.h.uaf \/ r.h.da[b] > 0]
         IN [h |-> IF h3.wc[b] = 0
                   THEN [h3 EXCEPT !.da = [h3.da EXCEPT ![b] = @ + 1]]
                   ELSE h3,
             nx |-> r.nx]

\* the heap and the members after an operation
SetNodes(r) ==
  /\ SetHeap(r.h)
  /\ next' = r.nx

\* d = make_strong_ptr<T>(alloc): the member holds nothing yet
node_make(d) ==
  /\ ~uaf /\ ~Live(ss[d])
  /\ nblocks < MaxBlocks
  /\ LET b == nblocks + 1 IN
       /\ nblocks' = b
       /\ strong_count' = [strong_count EXCEPT ![b] = 1]
       /\ weak_count' = [weak_count EXCEPT ![b] = 0]
       /\ next' = [next EXCEPT ![b] = 0]
       /\ ss' = [ss EXCEPT ![d] = NodeVar(b)]
  /\ err' = NoErr
  /\ UNCHANGED <<destroyed, deallocated, uaf, os>>
  /\ UNCHANGED <<concvars, facvars>>

\* strong_ptr(strong_ptr const&) between two variables
node_copy(d, s) ==
  /\ ~uaf
  /\ copy_ctor(d, s)

\* ~strong_ptr of a variable
node_dtor(s) ==
  /\ ~uaf /\ Live(ss[s])
  /\ ss' = [ss EXCEPT ![s] = NoVar]
  /\ SetNodes(node_release(Heap, next, ss[s].ctrl))
  /\ err' = NoErr
  /\ UNCHANGED <<nblocks, os>>
  /\ UNCHANGED <<concvars, facvars>>

\* operator=(strong_ptr const&) with the fields (ctrl) of p_other read
\* after release(): the body of the three assignment operators
node_assign_body(h, nx, old, ctrl) ==
  LET r == node_release(h, nx, old) IN
    [h |-> seq_add_ref(r.h, ctrl), nx |-> r.nx]

\* d = s for two variables: nothing when this == &p_other
node_assign(d, s) ==
  /\ ~uaf /\ Live(ss[d]) /\ Live(ss[s])
  /\ IF d = s
     THEN UNCHANGED <<ss, strong_count, weak_count, destroyed, deallocated,
                      uaf, next>>
     ELSE /\ ss' = [ss EXCEPT ![d] = ss[s]]
          /\ SetNodes(node_assign_body(Heap, next, ss[d].ctrl, ss[s].ctrl))
  /\ err' = NoErr
  /\ UNCHANGED <<nblocks, os>>
  /\ UNCHANGED <<concvars, facvars>>

\* s->next = t: the member of the object of s is assigned the variable t
\* (placement new when it held nothing)
node_set_next(s, t) ==
  /\ ~uaf /\ Live(ss[s]) /\ Live(ss[t])
  /\ LET n == ss[s].ctrl
         r == node_assign_body(Heap, next, next[n], ss[t].ctrl)
     IN /\ SetHeap(r.h)
        /\ next' = [r.nx EXCEPT ![n] = ss[t].ctrl]
  /\ err' = NoErr
  /\ UNCHANGED <<nblocks, ss, os>>
  /\ UNCHANGED <<concvars, facvars>>

\* s->next.reset(): the member releases what it holds, if engaged
node_reset_next(s) ==
  /\ ~uaf /\ Live(ss[s])
  /\ LET n == ss[s].ctrl
         r == node_release(Heap, [next EXCEPT ![n] = 0], next[n])
     IN SetNodes(r)
  /\ err' = NoErr
  /\ UNCHANGED <<nblocks, ss, os>>
  /\ UNCHANGED <<concvars, facvars>>

\* the object of block n, which holds p_other, has not outlived release()
Dangling(h, n) == h.de[n] > destroyed[n]

\* the values a read of p_other.m_ctrl can give once the object holding
\* p_other is destroyed and its memory returned: the bits left behind or
\* the address of any other control block (undefined behaviour)
StaleReads(c) == {c} \cup (1..nblocks)

\* d = s->next.value() (d may be s: node = node->next.value()): value()
\* throws on a disengaged member; otherwise operator=(strong_ptr const&
\* p_other) runs with p_other the m_value inside the object of s.  this !=
\* &p_other; release() comes first and may destroy that object, p_other
\* with it; m_ctrl = p_other.m_ctrl and m_ptr = p_other.m_ptr are read
\* after it, then ptr_add_ref(m_ctrl)
node_assign_next(d, s) ==
  /\ ~uaf /\ Live(ss[d]) /\ Live(ss[s])
  /\ LET n == ss[s].ctrl
         c == next[n]
         r == node_release(Heap, next, ss[d].ctrl)
     IN IF c = 0
        THEN /\ err' = bad_optional_ptr_access
             /\ UNCHANGED <<ss, strong_count, weak_count, destroyed,
                            deallocated, uaf, next>>
        ELSE /\ err' = NoErr
             /\ IF Dangling(r.h, n)
                THEN \E x \in StaleReads(c) :
                       /\ ss' = [ss EXCEPT ![d] = NodeVar(x)]
                       /\ SetHeap([seq_add_ref(r.h, x) EXCEPT !.uaf = TRUE])
                       /\ next' = r.nx
                ELSE /\ ss' = [ss EXCEPT ![d] = NodeVar(c)]
                     /\ SetHeap(seq_add_ref(r.h, c))
                     /\ next' = r.nx
  /\ UNCHANGED <<nblocks, os>>
  /\ UNCHANGED <<concvars, facvars>>

\* weak_ptr(strong_ptr<T> const&) and ~weak_ptr of a weak_ptr variable
node_weak(w, s) ==
  /\ ~uaf
  /\ weak_from_strong(w, s)

node_weak_dtor(w) ==
  /\ ~uaf
  /\ weak_dtor(w)

\* strong_ptr<T> d = w.lock(): lock() returns an optional_ptr, whose
\* operator strong_ptr<T>() copies value(), or throws when the weak_ptr has
\* expired; the optional_ptr is a temporary
node_lock(d, w) ==
  /\ ~uaf /\ ~Live(ss[d]) /\ Live(ws[w])
  /\ LET r == seq_lock(Heap, ws[w])
         c == ws[w].ctrl
     IN IF r.engaged
        THEN /\ ss' = [ss EXCEPT ![d] = NodeVar(c)]
             /\ SetHeap(seq_release(seq_add_ref(r.h, c), c))
             /\ err' = NoErr
        ELSE /\ SetHeap(r.h)
             /\ err' = bad_optional_ptr_access
             /\ UNCHANGED ss
  /\ UNCHANGED <<nblocks, os, next>>
  /\ UNCHANGED <<concvars, facvars>>

NextNode ==
  \/ \E d \in StrongVars : node_make(d)
  \/ \E d \in StrongVars, s \in StrongVars : node_copy(d, s)
  \/ \E s \in StrongVars : node_dtor(s)
  \/ \E d \in StrongVars, s \in StrongVars : node_assign(d, s)
  \/ \E s \in StrongVars, t \in StrongVars : node_set_next(s, t)
  \/ \E s \in StrongVars : node_reset_next(s)
  \/ \E d \in StrongVars, s \in StrongVars : node_assign_next(d, s)
  \/ \E w \in LockVars, s \in StrongVars : node_weak(w, s)
  \/ \E w \in LockVars : node_weak_dtor(w)
  \/ \E d \in StrongVars, w \in LockVars : node_lock(d, w)

SpecNode == Init /\ [][NextNode]_vars

\* ------------------------------------------------------------- properties
\* strong_ptr::use_count / weak_ptr::use_count
use_count(b) == IF b = 0 THEN 0 ELSE strong_count[b]

\* no operation is in progress
Quiescent == \A t \in Threads : th[t].pc \in {"idle", "off"}

\* live strong_ptr instances and engaged optional_ptr instances of block b
Owners(b) == sp[b] + op[b]

\* thread t is inside ptr_release(b) after its fetch_sub returned 1
Releasing(t, b) ==
  th[t].pc \in {"destroy", "load_weak", "dealloc"} /\ th[t].b = b

\* thread t holds the strong reference weak_ptr::lock has taken on b
LockHolds(t, b) ==
  /\ th[t].pc \in {"lock_copy", "lock_dtor", "lock_ret"} \/ th[t].ret = "lock_ret"
  /\ th[t].b = b

\* C1: while a live strong_ptr or an engaged optional_ptr references a
\* control block, its object has not been destroyed and no thread has begun
\* to destroy it.
C1_AliveWhileOwned ==
  \A b \in Blocks :
    Owners(b) > 0 =>
      /\ destroyed[b] = 0
      /\ deallocated[b] = 0
      /\ \A t \in Threads : ~Releasing(t, b)

\* a lock() has read the count 2, an owner has been released since, and the
\* remaining owner keeps the object alive
C1_Witness ==
  \E b \in Blocks, t \in Threads :
    /\ Owners(b) = 1 /\ strong_count[b] = 1 /\ destroyed[b] = 0
    /\ th[t].pc = "lock_cas" /\ th[t].b = b /\ th[t].cur = 2

\* C2: the destructor of the managed object runs at most once, only after
\* strong_count went from 1 to 0, and it has run once the releasing thread
\* is past its destroy call; weak pointers do not matter.
C2_DestroyedOnce ==
  \A b \in Blocks :
    /\ destroyed[b] <= 1
    /\ destroyed[b] = 1 => Created(b) /\ strong_count[b] = 0
    /\ Cardinality({t \in Threads : th[t].pc = "destroy" /\ th[t].b = b}) <= 1
    /\ (\E t \in Threads : th[t].pc = "destroy" /\ th[t].b = b) =>
         destroyed[b] = 0 /\ strong_count[b] = 0
    /\ (/\ Created(b) /\ strong_count[b] = 0
        /\ ~\E t \in Threads : th[t].pc = "destroy" /\ th[t].b = b) =>
         destroyed[b] = 1

\* the object was destroyed while a weak pointer remains
C2_Witness ==
  \E b \in Blocks :
    destroyed[b] = 1 /\ wp[b] > 0 /\ weak_count[b] > 0 /\ Quiescent

\* C3: whenever no operation is in progress, use_count() of every control
\* block equals the number of live strong_ptr instances and engaged
\* optional_ptr instances sharing it.
C3_UseCountIsOwners ==
  Quiescent => \A b \in Blocks : Created(b) => use_count(b) = Owners(b)

\* a strong_ptr and an optional_ptr obtained by lock() share one block
C3_Witness ==
  /\ Quiescent
  /\ \E b \in Blocks :
       sp[b] = 1 /\ op[b] = 1 /\ use_count(b) = 2 /\ wp[b] > 0

\* C4: a lock() that returns an engaged optional_ptr holds an object whose
\* destruction has not begun (strong_count > 0, destructor not run), and a
\* lock() that returns a disengaged one has seen the count at 0: the object
\* is being or has been destroyed.  Never both.
C4_LockOutcome ==
  /\ \A b \in Blocks :
       op[b] > 0 => strong_count[b] > 0 /\ destroyed[b] = 0
  /\ \A t \in Threads :
       /\ th[t].pc = "lock_null" =>
            /\ strong_count[th[t].b] = 0
            /\ destroyed[th[t].b] = 1 \/ \E u \in Threads : Releasing(u, th[t].b)
       /\ LockHolds(t, th[t].b) =>
            strong_count[th[t].b] > 0 /\ destroyed[th[t].b] = 0

\* the race: lock() has read a positive count, and the last strong pointer
\* has been released before its compare-exchange
C4_Witness ==
  \E t \in Threads, u \in Threads :
    /\ th[t].pc = "lock_cas" /\ th[t].cur > 0
    /\ strong_count[th[t].b] = 0
    /\ th[u].pc = "destroy" /\ th[u].b = th[t].b

\* C5: a control block is deallocated at most once, only with strong_count
\* at 0 and with no weak_ptr (nor strong owner) referencing it, and no step
\* ever reads or writes the counters of a deallocated block.
C5_DeallocSafe ==
  /\ ~uaf
  /\ \A b \in Blocks :
       /\ deallocated[b] <= 1
       /\ deallocated[b] = 1 =>
            /\ strong_count[b] = 0
            /\ wp[b] = 0 /\ Owners(b) = 0
            /\ \A t \in Threads :
                 /\ ~(th[t].pc \in LockPcs /\ th[t].b = b)
                 /\ ~(th[t].pc = "wassign_swap" /\ th[t].sb = b)

\* one block has been freed by the last strong release while the other,
\* destroyed too, is kept for its weak holder
C5_Witness ==
  \E b \in Blocks, c \in Blocks :
    /\ deallocated[b] = 1
    /\ destroyed[c] = 1 /\ deallocated[c] = 0 /\ wp[c] > 0

\* C6: once every strong, weak and optional pointer of a control block has
\* been released, its memory has been deallocated exactly once.
C6_FreedWhenAllReleased ==
  \A b \in Blocks :
    (Quiescent /\ Created(b) /\ Owners(b) = 0 /\ wp[b] = 0) =>
      deallocated[b] = 1

\* a freed block was destroyed first; past the destroy call the object is
\* destroyed and the block not yet freed
C7_Inv ==
  /\ \A b \in Blocks : deallocated[b] > 0 => destroyed[b] = 1
  /\ \A t \in Threads :
       th[t].pc \in {"load_weak", "dealloc"} =>
         destroyed[th[t].b] = 1 /\ deallocated[th[t].b] = 0

\* the release frees the block exactly when it read weak_count = 0
C7_Step ==
  \A t \in Threads :
    /\ (th[t].pc = "load_weak" /\ th'[t] # th[t]) =>
         (weak_count[th[t].b] = 0 <=> th'[t].pc = "dealloc")
    /\ (th[t].pc = "dealloc" /\ th'[t] # th[t]) =>
         deallocated'[th[t].b] = 1

\* C7: deallocation never precedes the destruction of the object: the
\* release that saw the count at 1 runs the destructor first, then frees
\* the block if and only if it reads weak_count = 0.
C7_DestroyThenDeallocate == []C7_Inv /\ [][C7_Step]_vars

\* the last strong release has destroyed the object and freed the block
C7_Witness ==
  \E b \in Blocks :
    destroyed[b] = 1 /\ deallocated[b] = 1 /\ weak_count[b] = 0 /\ Quiescent

\* what a step may do to a block whose strong_count is 0
C8_Step ==
  \A b \in Blocks :
    (Created(b) /\ strong_count[b] = 0) =>
      /\ strong_count'[b] = 0
      /\ expired(b)'
      /\ op'[b] = 0
      /\ \A t \in Threads :
           /\ ~LockHolds(t, b)'
           /\ (th[t].pc = "idle" /\ th'[t].pc \in LockPcs /\ th'[t].b = b) =>
                th'[t].pc = "lock_null"

\* C8: once strong_count of a control block is 0 it stays 0: every weak_ptr
\* to it stays expired, every lock() started on it returns disengaged, and
\* no engaged optional_ptr to it appears.
C8_ExpiredForever == [][C8_Step]_vars

\* a lock() on an expired weak_ptr is about to return disengaged
C8_Witness ==
  \E t \in Threads :
    /\ th[t].pc = "lock_null"
    /\ strong_count[th[t].b] = 0 /\ wp[th[t].b] > 0

\* a step of a weak_ptr constructor, assignment or destructor
WeakStep ==
  \/ wp' # wp
  \/ weak_count' # weak_count
  \/ \E t \in Threads :
       /\ th'[t] # th[t]
       /\ th[t].pc \in {"wassign_swap", "w_load_strong", "w_dealloc"}

\* such a step leaves every use_count(), object and owner alone
C9_Step ==
  WeakStep =>
    /\ \A b \in Blocks : use_count(b)' = use_count(b)
    /\ UNCHANGED <<destroyed, sp, op>>

\* C9: a step that changes the weak bookkeeping (constructing, copying,
\* assigning or destroying a weak_ptr) changes no strong_count, destroys
\* nothing and creates or removes no owner.
C9_WeakKeepsStrong == [][C9_Step]_vars

\* a weak_ptr is being assigned while two others exist and one owner lives
C9_Witness ==
  \E b \in Blocks, t \in Threads :
    /\ th[t].pc = "wassign_swap" /\ th[t].b = b /\ th[t].sb = b
    /\ weak_count[b] = 2 /\ strong_count[b] = 1 /\ sp[b] = 1

\* the values lock() holds at each of its steps when nothing interleaves
C10_Inv ==
  \A t \in Threads :
    /\ th[t].pc = "lock_null" => th[t].cur = 0
    /\ th[t].pc = "lock_cas" => th[t].cur = strong_count[th[t].b]
    /\ th[t].pc = "lock_ret" =>
         /\ th[t].cur > 0
         /\ use_count(th[t].b) = th[t].cur + 1
         /\ use_count(th[t].b) = Owners(th[t].b) + 1

\* lock() leaves weak_count alone, takes the live path on a live object and
\* hands out one optional_ptr; its destruction gives the reference back
C10_Step ==
  /\ \A t \in Threads :
       (th[t].pc \in LockPcs \cup {"lock_ret"} \/ th'[t].pc \in LockPcs) =>
         /\ weak_count' = weak_count
         /\ (th[t].pc = "idle" /\ strong_count[th'[t].b] > 0) =>
              th'[t].pc = "lock_load"
  /\ \A t \in Threads :
       (th[t].pc = "lock_ret" /\ th'[t] # th[t]) =>
         /\ op'[th[t].b] = op[th[t].b] + 1
         /\ strong_count' = strong_count
  /\ \A b \in Blocks :
       op'[b] = op[b] - 1 => use_count(b)' = use_count(b) - 1

\* C10: single-threaded, lock() on a weak_ptr whose object is alive never
\* returns disengaged; when it returns, use_count() is one above the count
\* it read, an engaged optional_ptr exists, no step of it has touched
\* weak_count, and destroying an optional_ptr lowers use_count() by one.
C10_LockAlive == []C10_Inv /\ [][C10_Step]_vars

\* lock() returns an engaged optional_ptr: one owner before, two now
C10_Witness ==
  \E t \in Threads :
    /\ th[t].pc = "lock_ret" /\ th[t].cur = 1
    /\ use_count(th[t].b) = 2 /\ sp[th[t].b] = 1

\* weak_ptr::lock of thread t is inside its load / compare-exchange loop
InLockLoop(t) == th[t].pc \in {"lock_load", "lock_cas"}

\* the locking thread (thread 1) is scheduled fairly: whenever its lock() or
\* the release inside it can take a step that changes the state, it
\* eventually does.  A compare_exchange_weak that fails spuriously on the
\* expected value changes nothing, so it cannot fail that way forever.
\* The other threads run as they please.
SpecFair ==
  Init /\ [][Next]_vars /\ WF_vars(lock(1)) /\ WF_vars(ptr_release(1))

\* another thread changes some strong_count
OtherChange ==
  /\ strong_count' # strong_count
  /\ th'[1] = th[1]

\* C11 as stated: under fair scheduling of the locking thread the retry
\* loop of lock() is always left, whatever the other threads do.
C11_LockTerminates == InLockLoop(1) ~> ~InLockLoop(1)

\* C11: under fair scheduling of the locking thread the retry loop of
\* lock() is left unless other threads keep changing strong_count forever.
C11_LockFree ==
  ([]<><<OtherChange>>_vars) \/ (InLockLoop(1) ~> ~InLockLoop(1))

\* the locking thread retries: its compare-exchange has failed on a count
\* another thread raised in between
C11_Witness ==
  /\ th[1].pc = "lock_cas" /\ th[1].cur = 2
  /\ strong_count[th[1].b] = 1 /\ sp[th[1].b] = 1

\* C12: every live strong_ptr variable, and the strong_ptr inside every
\* engaged optional_ptr, has a non-null control block and a non-null
\* address, and the address lies in the object of that control block.
C12_StrongNonNull ==
  /\ \A s \in StrongVars :
       Live(ss[s]) =>
         /\ ss[s].ctrl # 0 /\ ss[s].ptr # Null
         /\ ss[s].ptr[1] = ss[s].ctrl
  /\ \A o \in OptVars :
       is_engaged(os[o]) =>
         /\ os[o].ctrl # 0 /\ os[o].ptr # Null
         /\ os[o].ptr[1] = os[o].ctrl

\* an alias to an array element and a pointer to the base of another
\* object live, and an optional_ptr is engaged
C12_Witness ==
  /\ \E o \in OptVars : is_engaged(os[o])
  /\ \E s \in StrongVars, d \in StrongVars :
       /\ ss[s].ty = "E" /\ ss[d].ty = "T"
       /\ ss[s].ctrl # ss[d].ctrl

\* the pointer can be dereferenced: its object exists and the address is
\* that of a sub-object of the pointer's type
Readable(v) ==
  /\ v.ctrl # 0 /\ v.ptr # Null
  /\ v.ptr[1] = v.ctrl
  /\ TypeAt(v.ptr[2]) = v.ty
  /\ destroyed[v.ctrl] = 0 /\ deallocated[v.ctrl] = 0

\* the strong_ptr variables and engaged optional_ptr variables of block b
OwnerVars(b) ==
  Cardinality({s \in StrongVars : Live(ss[s]) /\ ss[s].ctrl = b})
  + Cardinality({o \in OptVars : is_engaged(os[o]) /\ os[o].ctrl = b})

\* the effect of a move construction and of a move assignment
C13_Step ==
  \A d \in StrongVars, s \in StrongVars :
    /\ move_ctor(d, s) =>
         /\ use_count(ss[s].ctrl)' = use_count(ss[s].ctrl) + 1
         /\ ss'[s] = ss[s] /\ (Readable(ss[s]) => Readable(ss[s])')
         /\ ss'[d] = ss[s]
    /\ (move_assign(d, s) /\ d # s) =>
         /\ ss'[s] = ss[s] /\ (Readable(ss[s]) => Readable(ss[s])')
         /\ ss'[d] = ss[s]
         /\ use_count(ss[s].ctrl)' =
              use_count(ss[s].ctrl) + (IF ss[d].ctrl = ss[s].ctrl THEN 0 ELSE 1)
         /\ use_count(ss[s].ctrl)' = OwnerVars(ss[s].ctrl)'

\* C13: move-constructing a strong_ptr raises use_count() by exactly one and
\* leaves the source as it was, same control block, same address, still
\* dereferenceable; move assignment leaves the source as it was and makes
\* the destination one more owner of the source's control block.
C13_MoveIsCopy == [][C13_Step]_vars

\* source and destination of a move both own the object
C13_Witness ==
  /\ Live(ss[1]) /\ ss[1] = ss[2]
  /\ use_count(ss[1].ctrl) = 2 /\ Readable(ss[1])

\* what a successful aliasing construction of d from parent s leaves
AliasMade(d, s, off) ==
  /\ err' = NoErr
  /\ ss'[s] = ss[s]
  /\ ss'[d].ctrl = ss[s].ctrl
  /\ ss'[d].ptr = <<ss[s].ptr[1], ss[s].ptr[2] + off>>
  /\ ss'[d].ptr # ss[s].ptr
  /\ use_count(ss[s].ctrl)' = use_count(ss[s].ctrl) + 1
  /\ strong_count'[ss'[d].ctrl] = strong_count'[ss'[s].ctrl]
  /\ Readable(ss[s]) => Readable(ss[d])'

C14_Step ==
  \A d \in StrongVars, s \in StrongVars :
    /\ alias_member(d, s) => AliasMade(d, s, MemberOff)
    /\ \A i \in Indices :
         (alias_array(d, s, i) /\ i < Capacity) =>
            AliasMade(d, s, ElemOff(i))

\* C14: aliasing a strong_ptr to a member of the parent, or to an element of
\* its member array at an index below the capacity, succeeds: the alias
\* shares the parent's control block, the parent's use_count() rises by
\* exactly one and is what the alias reports, and the alias holds the
\* address of the sub-object.
C14_AliasShares == [][C14_Step]_vars

\* parent and alias to its last array element live, two owners
C14_Witness ==
  \E d \in StrongVars, s \in StrongVars :
    /\ ss[s].ty = "U" /\ ss[d].ty = "E"
    /\ ss[d].ctrl = ss[s].ctrl
    /\ ss[d].ptr = <<ss[s].ctrl, ElemOff(Capacity - 1)>>
    /\ use_count(ss[s].ctrl) = 2 /\ err = NoErr

\* the refusal of an array alias at an index at or above the capacity
C15_Step ==
  \A d \in StrongVars, s \in StrongVars, i \in Indices :
    (alias_array(d, s, i) /\ i >= Capacity) =>
      /\ err' = out_of_range(i, Capacity)
      /\ ss' = ss /\ ~Live(ss[d])'
      /\ os' = os
      /\ UNCHANGED <<strong_count, weak_count, destroyed, deallocated>>

\* C15: aliasing an array element at an index at or above the capacity
\* raises OutOfRange with that index and the capacity, creates no strong
\* pointer and changes no counter.
C15_OutOfRange == [][C15_Step]_vars

\* the aliasing constructor has refused the index Capacity + 1; its parent
\* is still the only owner
C15_Witness ==
  /\ err = out_of_range(Capacity + 1, Capacity)
  /\ \A o \in OptVars : ~Live(os[o])
  /\ \E s \in StrongVars, d \in StrongVars :
       ss[s].ty = "U" /\ ~Live(ss[d]) /\ use_count(ss[s].ctrl) = 1

\* C16: an alias keeps the whole parent alive: while a strong_ptr to a
\* sub-object lives, the parent object is neither destroyed nor freed, the
\* alias can still be read, and its use_count() is the number of owners
\* that remain, whether or not a pointer to the parent itself is among them.
C16_AliasKeepsParent ==
  \A s \in StrongVars :
    (Live(ss[s]) /\ ss[s].ty = "E") =>
      /\ destroyed[ss[s].ctrl] = 0 /\ deallocated[ss[s].ctrl] = 0
      /\ Readable(ss[s])
      /\ use_count(ss[s].ctrl) = OwnerVars(ss[s].ctrl)
      /\ use_count(ss[s].ctrl) >= 1

\* every pointer to the parent itself is gone, the alias is the sole owner
C16_Witness ==
  \E s \in StrongVars :
    /\ ss[s].ty = "E" /\ use_count(ss[s].ctrl) = 1
    /\ \A x \in StrongVars \ {s} : ~Live(ss[x])
    /\ \A o \in OptVars : ~is_engaged(os[o])
    /\ destroyed[ss[s].ctrl] = 0

\* value(), operator* or operator-> on a disengaged optional_ptr
C17_Step ==
  \A o \in OptVars :
    (opt_value(o) /\ ~is_engaged(os[o])) =>
      /\ err' = bad_optional_ptr_access
      /\ uaf' = uaf
      /\ os' = os /\ ~is_engaged(os[o])'
      /\ ss' = ss
      /\ UNCHANGED <<strong_count, weak_count, destroyed, deallocated>>

\* C17: value(), operator* and operator-> on a disengaged optional_ptr raise
\* BadOptionalAccess before anything is dereferenced, leave the optional_ptr
\* disengaged and change no strong or weak counter.
C17_BadAccess == [][C17_Step]_vars

\* a disengaged optional_ptr has just been accessed while both strong_ptr
\* variables live
C17_Witness ==
  /\ err = bad_optional_ptr_access
  /\ \A s \in StrongVars : Live(ss[s])
  /\ \E o \in OptVars : Live(os[o]) /\ ~is_engaged(os[o])
  /\ ~uaf

\* a conversion of optional_ptr o to the strong_ptr d has been refused
ConversionRefused ==
  /\ err' = bad_optional_ptr_access
  /\ ss' = ss /\ os' = os
  /\ UNCHANGED <<strong_count, weak_count, destroyed, deallocated>>

\* the conversion of the engaged o has produced d, holding address p
ConversionMade(d, o, p) ==
  /\ err' = NoErr
  /\ ss'[d].ctrl = os[o].ctrl /\ ss'[d].ptr = p
  /\ use_count(os[o].ctrl)' = use_count(os[o].ctrl) + 1
  /\ os' = os /\ is_engaged(os[o])'
  /\ Readable(os[o]) => Readable(ss[d])'
  /\ UNCHANGED <<weak_count, destroyed, deallocated>>

C18_Step ==
  \A d \in StrongVars, o \in OptVars :
    /\ opt_to_strong(d, o) =>
         IF is_engaged(os[o])
         THEN ConversionMade(d, o, os[o].ptr)
         ELSE ConversionRefused
    /\ opt_to_strong_convert(d, o) =>
         IF is_engaged(os[o])
         THEN ConversionMade(d, o, Upcast(os[o].ptr))
         ELSE ConversionRefused

\* C18: the implicit conversion of an optional_ptr to a strong_ptr of its
\* type or of a base type raises BadOptionalAccess and changes no counter
\* when the optional_ptr is disengaged; when it is engaged it yields a
\* strong_ptr to the same object, raises use_count() by exactly one and
\* leaves the optional_ptr engaged.
C18_Conversion == [][C18_Step]_vars

\* an engaged optional_ptr<U> and the strong_ptr<T> converted from it
C18_Witness ==
  \E d \in StrongVars, o \in OptVars :
    /\ os[o].ty = "U" /\ is_engaged(os[o])
    /\ ss[d].ty = "T" /\ ss[d].ptr = Upcast(os[o].ptr)
    /\ use_count(os[o].ctrl) = 2 /\ OwnerVars(os[o].ctrl) = 2

\* every reference is accounted for: strong_count of a block is the number
\* of strong_ptr and engaged optional_ptr variables holding it, the object
\* is destroyed exactly when that number has come back to 0, once
RefsBalanced ==
  \A b \in Blocks :
    Created(b) =>
      /\ strong_count[b] = OwnerVars(b)
      /\ destroyed[b] = (IF strong_count[b] = 0 THEN 1 ELSE 0)
      /\ deallocated[b] = destroyed[b]

\* C19: an optional_ptr is engaged if and only if it holds a fully valid
\* strong_ptr (both words set, the object alive, the address that of a
\* sub-object of its type) that contributes exactly one strong reference;
\* a disengaged one contributes none, and no reference is leaked or
\* released twice.
C19_EngagedIsValid ==
  /\ \A o \in OptVars :
       Live(os[o]) =>
         /\ is_engaged(os[o]) <=> (os[o].ctrl # 0 /\ os[o].ptr # Null)
         /\ is_engaged(os[o]) => Readable(os[o])
  /\ RefsBalanced
  /\ ~uaf

\* the two pointers hold the address of one sub-object: the same offset of
\* the same object for pointers of one type; for a U* and a T*, the T*
\* holds the address of the base sub-object of the object the U* holds
SameAddress(v, w) ==
  /\ v.ptr[1] = w.ptr[1]
  /\ IF v.ty = w.ty THEN v.ptr[2] = w.ptr[2]
     ELSE IF v.ty = "U" THEN w.ptr[2] = v.ptr[2] + BaseOff
     ELSE v.ptr[2] = w.ptr[2] + BaseOff

\* C20: two disengaged optional_ptrs are equal to each other and to nullptr
\* on either side; an engaged one is equal neither to nullptr nor to a
\* disengaged one; two engaged ones are equal exactly when they hold the
\* same address; operator!= is the negation of operator== throughout.
C20_OptionalEquality ==
  \A o \in OptVars, p \in OptVars :
    LET v == os[o]
        w == os[p]
    IN
    (Live(v) /\ Live(w) /\
       (Convertible(v.ty, w.ty) \/ Convertible(w.ty, v.ty))) =>
      /\ (~is_engaged(v) /\ ~is_engaged(w)) =>
           opt_eq(v, w) /\ opt_eq_null(v) /\ null_eq_opt(v)
      /\ is_engaged(v) => ~opt_eq_null(v) /\ ~null_eq_opt(v)
      /\ (is_engaged(v) /\ ~is_engaged(w)) => ~opt_eq(v, w) /\ ~opt_eq(w, v)
      /\ (is_engaged(v) /\ is_engaged(w)) =>
           (opt_eq(v, w) <=> SameAddress(v, w))
      /\ opt_ne(v, w) = ~opt_eq(v, w)
      /\ opt_ne_null(v) = ~opt_eq_null(v)
      /\ null_ne_opt(v) = ~null_eq_opt(v)

\* two engaged optional_ptrs share a control block and hold the addresses
\* of different sub-objects: they are unequal
C20_Witness ==
  /\ is_engaged(os[1]) /\ is_engaged(os[2])
  /\ os[1].ty = os[2].ty
  /\ os[1].ctrl = os[2].ctrl /\ os[1].ptr # os[2].ptr
  /\ ~opt_eq(os[1], os[2]) /\ opt_ne(os[1], os[2])

\* C21: two strong_ptrs compare equal if and only if they hold the same
\* object address, whatever their control blocks: a copy is equal to its
\* source, pointers into different objects are unequal, and two pointers
\* sharing a control block that alias different sub-objects are unequal;
\* operator!= is the negation of operator==.
C21_StrongEquality ==
  \A a \in StrongVars, b \in StrongVars :
    LET v == ss[a]
        w == ss[b]
    IN
    (Live(v) /\ Live(w) /\
       (Convertible(v.ty, w.ty) \/ Convertible(w.ty, v.ty))) =>
      /\ strong_eq(v, w) <=> SameAddress(v, w)
      /\ v = w => strong_eq(v, w)
      /\ v.ptr[1] # w.ptr[1] => ~strong_eq(v, w)
      /\ (v.ctrl = w.ctrl /\ v.ty = w.ty /\ v.ptr # w.ptr) =>
           ~strong_eq(v, w)
      /\ strong_ne(v, w) = ~strong_eq(v, w)

\* two strong_ptr<E> share a control block and alias two different
\* sub-objects of the one object: they are unequal
C21_Witness ==
  /\ Live(ss[1]) /\ Live(ss[2])
  /\ ss[1].ty = "E" /\ ss[2].ty = "E"
  /\ ss[1].ctrl = ss[2].ctrl /\ ss[1].ptr # ss[2].ptr
  /\ strong_count[ss[1].ctrl] = 2
  /\ ~strong_eq(ss[1], ss[2]) /\ strong_ne(ss[1], ss[2])

\* the counters of every control block other than b are left alone
OthersUnchanged(b) ==
  \A c \in Blocks \ {b} :
    /\ strong_count'[c] = strong_count[c]
    /\ weak_count'[c] = weak_count[c]
    /\ destroyed'[c] = destroyed[c]
    /\ deallocated'[c] = deallocated[c]

\* reset() on an engaged optional_ptr of block b
ResetEngaged(o, b) ==
  /\ ~is_engaged(os'[o]) /\ Live(os'[o])
  /\ strong_count'[b] = strong_count[b] - 1
  /\ destroyed'[b] = destroyed[b] + (IF strong_count[b] = 1 THEN 1 ELSE 0)
  /\ OthersUnchanged(b)
  /\ ss' = ss /\ \A p \in OptVars \ {o} : os'[p] = os[p]

\* a strong_ptr s assigned to a disengaged optional_ptr
Reengaged(o, s) ==
  LET b == ss[s].ctrl IN
  /\ is_engaged(os'[o]) /\ os'[o].ctrl = b
  /\ strong_count'[b] = strong_count[b] + 1
  /\ destroyed' = destroyed /\ deallocated' = deallocated
  /\ OthersUnchanged(b)

C22_Step ==
  /\ \A o \in OptVars :
       opt_reset(o) =>
         IF is_engaged(os[o])
         THEN ResetEngaged(o, os[o].ctrl)
         ELSE /\ os' = os /\ ss' = ss
              /\ UNCHANGED <<strong_count, weak_count, destroyed,
                             deallocated, nblocks>>
  /\ \A o \in OptVars, s \in StrongVars :
       ((opt_assign_strong(o, s) \/ opt_assign_convert(o, s))
          /\ ~is_engaged(os[o])) => Reengaged(o, s)

\* C22: reset() or the assignment of nullptr disengages an engaged
\* optional_ptr and lowers use_count() by exactly one, destroying the object
\* when that was the last owner; on a disengaged optional_ptr it changes
\* nothing, so a second reset is a no-op; assigning a strong_ptr to the
\* disengaged optional_ptr engages it and raises use_count() by one.
C22_Reset == [][C22_Step]_vars

\* a reset has released the last owner: the optional_ptr lives, disengaged,
\* no other pointer exists and the object has been destroyed
C22_Witness ==
  /\ Live(os[1]) /\ ~is_engaged(os[1]) /\ ~Live(os[2])
  /\ \A s \in StrongVars : ~Live(ss[s])
  /\ nblocks = 1 /\ strong_count[1] = 0 /\ destroyed[1] = 1
  /\ err = NoErr

\* the counters of every control block, and the memory, are left alone
CountersUnchanged ==
  UNCHANGED <<strong_count, weak_count, destroyed, deallocated, nblocks, mem>>

\* object x is not managed by a live strong_ptr: its constructor is still
\* running inside the Factory, it has automatic storage, or strong_count
\* has reached 0 and its destructor is running
NotManaged(x) ==
  \/ objs[x].phase = "ctor"
  \/ x = Auto
  \/ objs[x].phase = "dtor" /\ strong_count[x] = 0

C23_Step ==
  \A d \in StrongVars, x \in ObjIds :
    (strong_from_this(d, x) /\ NotManaged(x)) =>
      /\ err' = bad_weak_ptr
      /\ CountersUnchanged
      /\ UNCHANGED <<ss, os, ws, objs, fac, uaf>>

\* C23: strong_from_this() raises bad_weak_ptr, and changes no counter,
\* whenever the object is not managed by a live strong pointer: called from
\* the object's constructor before the Factory has wired the
\* self-reference, on an object the Factory has not created, or from the
\* destructor once strong_count has reached 0.
C23_BadWeakReference == [][C23_Step]_vars

\* the destructor of a wired object has called strong_from_this() and
\* caught bad_weak_ptr: strong_count is 0, m_weak_this still refers to the
\* object's own control block
C23_Witness ==
  /\ fac.pc = "dtor" /\ err = bad_weak_ptr
  /\ strong_count[fac.b] = 0 /\ weak_count[fac.b] = 1
  /\ objs[fac.b].weak_this.ctrl = fac.b
  /\ destroyed[fac.b] = 0

\* object x of a class deriving from enable_strong_from_this of itself,
\* after make_strong_ptr has returned it and while strong pointers hold it
Wired(x) ==
  /\ x \in Blocks /\ fac.pc = "idle"
  /\ objs[x].kind = "self" /\ objs[x].phase = "alive"

\* the strong_ptr and engaged optional_ptr variables account for
\* strong_count
C24_Inv ==
  \A x \in Blocks :
    objs[x].phase = "alive" =>
      /\ strong_count[x] = OwnerVars(x)
      /\ strong_count[x] > 0
      /\ destroyed[x] = 0 /\ deallocated[x] = 0

C24_Step ==
  /\ \A d \in StrongVars, x \in ObjIds :
       (strong_from_this(d, x) /\ Wired(x)) =>
         /\ err' = NoErr
         /\ ss'[d] = [ctrl |-> x, ptr |-> <<x, 0>>, ty |-> "U"]
         /\ \A s \in StrongVars :
              (Live(ss[s]) /\ ss[s].ctrl = x) =>
                 ss'[s] = ss[s] /\ strong_eq(ss'[d], ss'[s])
         /\ strong_count'[x] = strong_count[x] + 1
         /\ UNCHANGED <<weak_count, destroyed, deallocated, nblocks, mem>>
         /\ OthersUnchanged(x)
  /\ \A w \in WeakVars, x \in ObjIds :
       (weak_from_this(w, x) /\ Wired(x)) =>
         /\ ws'[w] = [ctrl |-> x, ptr |-> <<x, 0>>, ty |-> "U"]
         /\ ~(ws'[w].ctrl = 0 \/ strong_count'[ws'[w].ctrl] = 0)
         /\ seq_lock(Heap', ws'[w]).engaged
         /\ UNCHANGED <<strong_count, destroyed, deallocated, nblocks, mem>>

\* C24: for a class that declares the self-reference capability, once the
\* Factory has returned, strong_from_this() returns a strong_ptr to the
\* same object address that shares the control block, and use_count() goes
\* up by exactly one for each returned pointer that is still alive;
\* weak_from_this() returns a weak_ptr that is not expired and locks to the
\* same object.
C24_StrongFromThis == []C24_Inv /\ [][C24_Step]_vars

\* both variables hold pointers strong_from_this() has returned, next to
\* the optional_ptr of a lock: use_count() is 3
C24_Witness ==
  /\ fac.pc = "idle" /\ objs[1].kind = "self" /\ objs[1].phase = "alive"
  /\ Live(ss[1]) /\ Live(ss[2]) /\ ss[1] = ss[2] /\ ss[1].ctrl = 1
  /\ is_engaged(os[1]) /\ os[1].ctrl = 1
  /\ strong_count[1] = 3 /\ weak_count[1] >= 2
  /\ err = NoErr

\* the m_weak_this of every object is empty or refers to the object's own
\* control block; it is empty until the Factory has wired it
C25_Inv ==
  \A x \in ObjIds :
    /\ objs[x].weak_this.ctrl \in {0, x}
    /\ objs[x].weak_this.ctrl # 0 => objs[x].weak_this.ptr = <<x, 0>>
    /\ objs[x].phase \in {"ctor", "built"} => objs[x].weak_this = EmptyWeak
    /\ x = Auto => objs[x].weak_this = EmptyWeak

C25_Step ==
  /\ \A x \in ObjIds, y \in ObjIds :
       obj_assign(x, y) =>
         /\ objs'[x].weak_this = objs[x].weak_this
         /\ objs'[y] = objs[y]
         /\ weak_count' = weak_count
  /\ \A src \in ObjIds :
       fac_ctor_ok(src) =>
         /\ objs'[fac.b].weak_this = EmptyWeak
         /\ objs'[src] = objs[src]
         /\ weak_count' = weak_count
  /\ \A k \in Kinds, src \in ObjIds :
       auto_ctor(k, src) =>
         /\ objs'[Auto].weak_this = EmptyWeak
         /\ objs'[src] = objs[src]
         /\ weak_count' = weak_count

\* C25: the copy constructor and the copy assignment of an object with the
\* self-reference mixin do not copy the stored weak reference: weak_count
\* of the source's control block is unchanged, assignment leaves the
\* target's self-reference as it was, copy construction leaves it empty
\* until the Factory wires it, and the target's self-reference never
\* refers to the source's control block.
C25_MixinCopy == []C25_Inv /\ [][C25_Step]_vars

\* two objects made by the Factory, the second one as a copy of the first,
\* and an automatic copy: each Factory object refers to its own control
\* block, the automatic one to none
C25_Witness ==
  /\ fac.pc = "idle"
  /\ \A x \in {1, 2} :
       /\ objs[x].kind = "self" /\ objs[x].phase = "alive"
       /\ objs[x].weak_this.ctrl = x /\ weak_count[x] = 1
  /\ objs[Auto].kind = "self" /\ objs[Auto].phase = "alive"
  /\ objs[Auto].weak_this = EmptyWeak

\* the control block of an object whose constructor has not returned to the
\* Factory's caller yet holds the initial values of ref_info
C26_Inv ==
  \A b \in Blocks :
    objs[b].phase \in {"ctor", "built"} =>
      /\ strong_count[b] = 1 /\ weak_count[b] = 0
      /\ fac.b = b /\ b = nblocks

C26_Step ==
  /\ \A d \in StrongVars, k \in Kinds :
       (fac_alloc(d, k) /\ nblocks' # nblocks) =>
         /\ strong_count'[nblocks'] = 1 /\ weak_count'[nblocks'] = 0
         /\ objs'[nblocks'].kind = k
  /\ fac_return =>
       /\ Live(ss'[fac.d]) /\ ss'[fac.d].ctrl = fac.b
       /\ strong_count'[ss'[fac.d].ctrl] = 1
       /\ objs'[fac.b].kind \in Kinds

\* C26: a freshly created control block has strong_count 1 and weak_count
\* 0, and the strong_ptr the Factory returns reports use_count() == 1 for
\* every managed class, the ones constructed with the gate token and the
\* ones with the self-reference capability included.
C26_FreshBlock == []C26_Inv /\ [][C26_Step]_vars

\* the Factory has returned an object of a token-gated class and one of a
\* self-referencing class; each variable is the only owner of its object
C26_Witness ==
  /\ fac.pc = "idle"
  /\ objs[1].kind = "token" /\ objs[1].phase = "alive"
  /\ objs[2].kind = "self" /\ objs[2].phase = "alive"
  /\ ss[1].ctrl = 1 /\ ss[2].ctrl = 2
  /\ use_count(1) = 1 /\ use_count(2) = 1
  /\ weak_count[1] = 0 /\ weak_count[2] = 1

\* every allocation the memory resource has not got back is the rc<T> of a
\* control block that exists
MemIsBlocks ==
  mem = Cardinality({b \in Blocks : Created(b) /\ deallocated[b] = 0})

\* after the step no pointer variable refers to control block b, and the
\* block does not exist
Unreferenced(b) ==
  /\ \A s \in StrongVars : ss'[s].ctrl # b
  /\ \A w \in WeakVars : ws'[w].ctrl # b
  /\ \A o \in OptVars : os'[o].ctrl # b
  /\ \A x \in ObjIds : objs'[x].weak_this.ctrl # b
  /\ b \notin 1..nblocks'

C27_Step ==
  /\ \A d \in StrongVars, k \in Kinds :
       (fac_alloc(d, k) /\ nblocks' = nblocks) =>
         /\ err' = bad_alloc
         /\ CountersUnchanged
         /\ UNCHANGED <<ss, os, ws, objs, fac, uaf>>
  /\ \A e \in {ctor_error, bad_weak_ptr} :
       fac_ctor_throw(e) =>
         /\ err' = e
         /\ nblocks' = nblocks - 1
         /\ Unreferenced(fac.b)
         /\ objs'[fac.b] = NoObj
         /\ mem' = mem - 1
         /\ ~Live(ss'[fac.d])
         /\ fac' = IdleFac
  /\ fac.pc = "ctor" => OthersUnchanged(fac.b)
  /\ (fac.pc = "idle" /\ fac'.pc = "ctor") => OthersUnchanged(fac'.b)

\* C27: when the allocation or the constructor of the object fails inside
\* the Factory, the caller gets the exception, no strong_ptr, weak_ptr or
\* control block of the new object exists afterwards, the memory obtained
\* for it is back with the allocator, and the counters of all other
\* control blocks are as they were.
C27_FactoryFailure == []MemIsBlocks /\ [][C27_Step]_vars

\* a second Factory call has failed in the constructor while the object
\* of the first is alive: one control block, one allocation outstanding
C27_Witness ==
  /\ fac.pc = "idle" /\ err = ctor_error
  /\ nblocks = 1 /\ mem = 1
  /\ objs[1].phase = "alive" /\ strong_count[1] = 2 /\ weak_count[1] = 1
  /\ objs[2] = NoObj /\ strong_count[2] = 0
  /\ ~Live(ss[2])

\* weak_ptr::expired and weak_ptr::use_count of a weak_ptr variable
weak_expired(v) == expired(v.ctrl)
weak_use_count(v) == IF v.ctrl # 0 THEN strong_count[v.ctrl] ELSE 0

C28_Inv ==
  \A w \in WeakVars :
    LET v == ws[w] IN
    Live(v) =>
      /\ weak_expired(v) <=> (v.ctrl = 0 \/ weak_use_count(v) = 0)
      /\ v.ctrl = 0 => weak_expired(v) /\ weak_use_count(v) = 0
      /\ v.ctrl # 0 =>
           (weak_expired(v) <=> objs[v.ctrl].phase \in {"dtor", "none"})
      /\ fac.pc = "idle" => (seq_lock(Heap, v).engaged <=> ~weak_expired(v))
      /\ v.ctrl # 0 => deallocated[v.ctrl] = 0

C28_Step ==
  /\ \A w \in WeakVars :
       weak_default(w) =>
         /\ ws'[w].ctrl = 0 /\ ws'[w].ptr = Null /\ Live(ws'[w])
         /\ CountersUnchanged
  /\ \A w \in WeakVars :
       (weak_dtor(w) /\ ws[w].ctrl = 0) =>
         CountersUnchanged /\ UNCHANGED <<uaf, ss, os, objs>>
  /\ \A o \in LockVars, w \in WeakVars :
       weak_lock(o, w) =>
         /\ Live(os'[o])
         /\ is_engaged(os'[o]) <=> ~weak_expired(ws[w])
         /\ weak_expired(ws[w]) => CountersUnchanged /\ uaf' = uaf
         /\ ~weak_expired(ws[w]) =>
              /\ os'[o].ctrl = ws[w].ctrl /\ os'[o].ptr = ws[w].ptr
              /\ strong_count'[ws[w].ctrl] = strong_count[ws[w].ctrl] + 1

\* C28: expired() is true exactly when the weak_ptr has no control block or
\* strong_count is 0; a default-constructed weak_ptr is expired, has
\* use_count() 0, locks to a disengaged optional_ptr, and its destruction
\* touches no control block.
C28_Expired == []C28_Inv /\ [][C28_Step]_vars

\* a default-constructed weak_ptr has been locked, to a disengaged
\* optional_ptr, next to a weak_ptr that has expired with its object
C28_Witness ==
  /\ fac.pc = "idle"
  /\ Live(ws[1]) /\ ws[1].ctrl = 0 /\ weak_expired(ws[1])
  /\ Live(os[1]) /\ ~is_engaged(os[1])
  /\ ws[2].ctrl = 1 /\ weak_expired(ws[2])
  /\ destroyed[1] = 1 /\ deallocated[1] = 0
  /\ nblocks = 2 /\ strong_count[2] = 1

\* thread t has made a compare-exchange that failed and has come back to
\* the head of the loop with another current_count
FailedCas(t) ==
  /\ th[t].pc = "lock_cas" /\ th'[t].pc = "lock_cas"
  /\ th'[t].cur # th[t].cur

SameCounters == strong_count' = strong_count /\ weak_count' = weak_count

\* the positions of lock() from which it can still return nullptr
BeforeIncrement == {"lock_load", "lock_cas", "lock_null"}

\* a step of lock() that stays on the way to return nullptr writes nothing;
\* the compare-exchange that writes leaves that way for good, and it writes
\* over a positive count only
C31_Step ==
  /\ \A t \in Threads :
       /\ (th'[t] # th[t] /\ th'[t].pc \in BeforeIncrement) =>
            /\ th[t].pc \in {"idle"} \cup BeforeIncrement
            /\ SameCounters
       /\ (th[t].pc = "lock_null" /\ th'[t] # th[t]) =>
            th'[t] = IdleTh /\ SameCounters /\ op' = op
       /\ (th[t].pc \in BeforeIncrement /\ th'[t] # th[t] /\ ~SameCounters) =>
            /\ th[t].pc = "lock_cas" /\ th'[t].pc = "lock_copy"
            /\ strong_count[th[t].b] > 0
            /\ strong_count' =
                 [strong_count EXCEPT ![th[t].b] = th[t].cur + 1]
            /\ strong_count[th[t].b] = th[t].cur
            /\ weak_count' = weak_count
       /\ (th[t].pc \in {"lock_copy", "lock_dtor", "lock_ret"}
           /\ th'[t] # th[t]) =>
            th'[t].pc \notin BeforeIncrement
  /\ \A b \in Blocks :
       (Created(b) /\ strong_count[b] = 0) => strong_count'[b] = 0

\* C31: a lock() that returns a disengaged optional_ptr has written neither
\* counter at any of its steps, and a strong_count that has reached 0 is
\* never raised again, not even for the time of one step.
C31_LockWritesNothing == [][C31_Step]_vars

\* inside the loop of lock() the compare-exchange has failed and loaded 0:
\* the last owner went away after the expired() test, and the call is about
\* to return nullptr
C31_Witness ==
  \E t \in Threads :
    /\ th[t].pc = "lock_cas" /\ th[t].cur = 0
    /\ strong_count[th[t].b] = 0 /\ weak_count[th[t].b] > 0
    /\ wp[th[t].b] > 0

\* the live non-empty weak_ptr instances that reference block b: the
\* instances of the threads, the weak_ptr variables, and the m_weak_this of
\* every object with the mixin that has begun to live and not ended
WeakRefs(b) ==
  wp[b]
  + Cardinality({w \in WeakVars : Live(ws[w]) /\ ws[w].ctrl = b})
  + Cardinality({x \in ObjIds : /\ HasMixin(objs[x].kind)
                                /\ objs[x].weak_this.ctrl = b})

\* C32: whenever no operation is in progress, weak_count of every control
\* block equals the number of live non-empty weak_ptr instances that
\* reference it, the m_weak_this of a live object with the self-reference
\* included, and weak_count is never negative, whatever weak_ptr
\* constructions, copies, moves, assignments, swaps and destructions ran.
C32_WeakCountIsObservers ==
  \A b \in Blocks :
    /\ weak_count[b] >= 0
    /\ Quiescent => weak_count[b] = WeakRefs(b)

\* an object with the self-reference is observed by two weak_ptr variables
\* as well: three weak references
C32_Witness ==
  \E b \in Blocks :
    /\ objs[b].kind = "self" /\ objs[b].phase = "alive"
    /\ objs[b].weak_this.ctrl = b
    /\ \A w \in WeakVars : Live(ws[w]) /\ ws[w].ctrl = b
    /\ weak_count[b] = 3

\* the destination w has taken the fields of the source v, and v is empty:
\* expired() and use_count() == 0 follow from m_ctrl == nullptr
Transferred(w, v) ==
  /\ ws'[v] = Emptied(ws[v])
  /\ ws'[w].ctrl = ws[v].ctrl /\ ws'[w].ptr = ws[v].ptr

\* C37 as stated: after any move construction or move assignment of a
\* weak_ptr the source is empty, the destination references the source's
\* former control block, and the weak_count of that block is what it was.
C37_MoveAlwaysTransfers ==
  [][\A w \in WeakVars, v \in WeakVars :
       (weak_move_ctor(w, v) \/ weak_move_assign(w, v)) =>
         /\ Transferred(w, v)
         /\ ws[v].ctrl # 0 =>
              weak_count'[ws[v].ctrl] = weak_count[ws[v].ctrl]]_vars

\* the counters after the reference that block b held in the destination
\* has been released (b = 0: the destination was empty)
AfterWeakRelease(b) ==
  /\ strong_count' = strong_count
  /\ weak_count' = IF b = 0 THEN weak_count
                   ELSE [weak_count EXCEPT ![b] = @ - 1]

C37_Step ==
  \A w \in WeakVars, v \in WeakVars :
    /\ weak_move_ctor(w, v) =>
         /\ Transferred(w, v)
         /\ SameCounters
    /\ (weak_move_assign(w, v) /\ w # v) =>
         /\ Transferred(w, v)
         /\ AfterWeakRelease(ws[w].ctrl)
    /\ (weak_move_assign(w, v) /\ w = v) =>
         /\ ws' = ws
         /\ SameCounters

\* C37: the move constructor of weak_ptr, and the move assignment between
\* two distinct weak_ptr objects, leave the source empty and the destination
\* with the source's fields, adding and removing no reference of the source's
\* block; the move assignment releases the reference the destination held
\* before, which lowers the weak_count of that block by one -- the source's
\* block itself when both referenced it.  A weak_ptr move-assigned to itself
\* is left as it was, not empty.
C37_MoveTransfers == [][C37_Step]_vars

\* a weak_ptr of an object with the self-reference has been moved from: it
\* is empty, the other weak_ptr holds the one reference besides m_weak_this
C37_Witness ==
  \E b \in Blocks, w \in WeakVars, v \in WeakVars :
    /\ Live(ws[v]) /\ ws[v].ctrl = 0 /\ ws[v].ptr = Null
    /\ ws[w].ctrl = b /\ ws[w].ptr = <<b, 0>>
    /\ objs[b].weak_this.ctrl = b
    /\ weak_count[b] = 2 /\ strong_count[b] > 0

\* what a = b does to the counters and objects; a is the control block of
\* the destination before the assignment, b the one of the source
Reassigned(a, b) ==
  IF a = b
  THEN UNCHANGED <<strong_count, weak_count, destroyed, deallocated>>
  ELSE /\ strong_count'[a] = strong_count[a] - 1
       /\ destroyed'[a] = destroyed[a] + (IF strong_count[a] = 1 THEN 1 ELSE 0)
       /\ strong_count'[b] = strong_count[b] + 1
       /\ destroyed'[b] = destroyed[b] /\ deallocated'[b] = deallocated[b]
       /\ weak_count' = weak_count
       /\ \A c \in Blocks \ {a, b} :
            /\ strong_count'[c] = strong_count[c]
            /\ destroyed'[c] = destroyed[c]
            /\ deallocated'[c] = deallocated[c]

C33_Step ==
  \A d \in StrongVars, s \in StrongVars :
    /\ ((copy_assign(d, s) \/ move_assign(d, s)) /\ d # s) =>
         /\ Reassigned(ss[d].ctrl, ss[s].ctrl)
         /\ ss'[d] = ss[s] /\ ss'[s] = ss[s]
    /\ ((copy_assign(d, s) \/ move_assign(d, s)) /\ d = s) =>
         /\ ss' = ss
         /\ UNCHANGED <<strong_count, weak_count, destroyed, deallocated>>
    /\ convert_assign(d, s) =>
         /\ Reassigned(ss[d].ctrl, ss[s].ctrl)
         /\ ss'[d].ctrl = ss[s].ctrl
         /\ ss'[d].ptr = ConvertPtr(ss[s].ptr, ss[s].ty, ss[d].ty)
         /\ ss'[s] = ss[s]

\* C33: assigning strong_ptr b to strong_ptr a (copy, converting or move
\* assignment) lowers the use_count of a's previous control block by one,
\* destroying its object if a was the last owner, raises the use_count of
\* b's control block by one and leaves b unchanged; self-assignment and the
\* assignment between two pointers of one control block leave that use_count
\* unchanged and destroy nothing.
C33_Assignment == [][C33_Step]_vars

\* an assignment has destroyed the object the destination was the last
\* owner of; both variables share the other block now
C33_Witness ==
  \E a \in Blocks, b \in Blocks :
    /\ a # b
    /\ destroyed[a] = 1 /\ deallocated[a] = 1 /\ strong_count[a] = 0
    /\ \A v \in StrongVars : ss[v].ctrl = b
    /\ strong_count[b] = 2 /\ destroyed[b] = 0
    /\ ss[1].ty = "T" /\ ss[2].ty = "U"

C35_Step ==
  \A o \in OptVars, s \in StrongVars, i \in Indices :
    (opt_emplace_alias(o, s, i) /\ OutOfBounds(Capacity, i)) =>
      /\ err' = out_of_range(i, Capacity)
      /\ IF is_engaged(os[o])
         THEN ResetEngaged(o, os[o].ctrl)
         ELSE /\ os' = os /\ ss' = ss
              /\ UNCHANGED <<strong_count, weak_count, destroyed,
                             deallocated>>

C36_Step ==
  \A o \in OptVars, p \in OptVars :
    opt_swap(o, p) =>
      /\ os'[o] = os[p] /\ os'[p] = os[o]
      /\ ss' = ss
      /\ UNCHANGED <<strong_count, weak_count, destroyed, deallocated, uaf>>

\* C36: optional_ptr::swap exchanges the contents of the two optional_ptrs
\* whichever of them are engaged; when it has completed every strong_count
\* and weak_count is what it was, and no object has been destroyed on the
\* way, not even one whose only owner is an operand (a destructor that has
\* run stays counted in destroyed).
C36_Swap == [][C36_Step]_vars

\* the operands of a swap of an engaged optional_ptr, the only owner of its
\* object, with a disengaged one
C36_Witness ==
  \E o \in OptVars, p \in OptVars, b \in Blocks :
    /\ is_engaged(os[o]) /\ os[o].ctrl = b
    /\ Live(os[p]) /\ ~is_engaged(os[p]) /\ os[p].ty = os[o].ty
    /\ strong_count[b] = 1 /\ destroyed[b] = 0
    /\ \A s \in StrongVars : ss[s].ctrl # b

\* the object of block b has the self-reference, wired by the Factory, and
\* no weak_ptr besides its m_weak_this references the block
SelfOnly(b) ==
  /\ b \in Blocks
  /\ objs[b].kind = "self" /\ objs[b].weak_this.ctrl = b
  /\ weak_count[b] = 1
  /\ \A w \in WeakVars : ws[w].ctrl # b

\* the release of the last owner of block b has entered ~T(): strong_count
\* is 0, the self-reference is still held, nothing is destroyed or freed yet
DestructionBegun(b) ==
  /\ fac' = [pc |-> "dtor", b |-> b, d |-> 0]
  /\ strong_count'[b] = 0 /\ weak_count'[b] = 1
  /\ destroyed' = destroyed /\ deallocated' = deallocated /\ mem' = mem

C38_Inv ==
  /\ ~uaf
  /\ \A b \in Blocks : destroyed[b] <= 1 /\ deallocated[b] <= 1

C38_Step ==
  /\ \A s \in StrongVars :
       (fac_strong_dtor(s) /\ SelfOnly(ss[s].ctrl)
          /\ strong_count[ss[s].ctrl] = 1) => DestructionBegun(ss[s].ctrl)
  /\ \A o \in LockVars :
       (fac_opt_dtor(o) /\ SelfOnly(os[o].ctrl)
          /\ strong_count[os[o].ctrl] = 1) => DestructionBegun(os[o].ctrl)
  /\ (fac_destroy /\ SelfOnly(fac.b)) =>
       /\ destroyed'[fac.b] = 1
       /\ weak_count'[fac.b] = 0 /\ strong_count'[fac.b] = 0
       /\ deallocated'[fac.b] = 1
       /\ mem' = mem - 1
       /\ OthersUnchanged(fac.b)
       /\ objs'[fac.b] = NoObj
       /\ uaf' = uaf

\* C38: when the last strong pointer of an object with the self-reference,
\* observed by no other weak pointer, is released, the object is destroyed
\* although its m_weak_this still counts in weak_count; the destruction
\* releases m_weak_this without deallocating, and the memory is then
\* deallocated exactly once: no leak, no second deallocation, no access to
\* freed memory.
C38_SelfReferenceLifecycle == []C38_Inv /\ [][C38_Step]_vars

\* ~T() of a self-referencing object is running after the last strong
\* pointer was released: only m_weak_this references the block
C38_Witness ==
  /\ fac.pc = "dtor" /\ err = NoErr
  /\ SelfOnly(fac.b)
  /\ strong_count[fac.b] = 0
  /\ destroyed[fac.b] = 0 /\ deallocated[fac.b] = 0
  /\ mem = 1

\* the owners of block b when the variables are vs and the members nx:
\* the strong_ptr variables and the strong_ptr members referencing it
NodeOwners(vs, nx, b) ==
  Cardinality({v \in StrongVars : vs[v].ctrl = b})
  + Cardinality({n \in Blocks : nx[n] = b})

\* C34: an assignment whose source is the strong_ptr member of an object
\* (node = node->next.value()) is safe: the target references the object
\* the member referenced, that object is alive with one strong reference
\* per owner, and no freed memory is touched, also when the assignment
\* releases the last reference to the object holding the member
C34_AssignFromMemberSafe ==
  [][\A d \in StrongVars, s \in StrongVars :
       (node_assign_next(d, s) /\ next[ss[s].ctrl] # 0) =>
         LET c == next[ss[s].ctrl] IN
           /\ ~uaf'
           /\ ss'[d] = NodeVar(c)
           /\ destroyed'[c] = 0 /\ deallocated'[c] = 0
           /\ strong_count'[c] >= 1
           /\ strong_count'[c] = NodeOwners(ss', next', c)]_vars

\* the objects of blocks a and b each hold a strong_ptr to the other
Cycle(a, b) == a # b /\ next[a] = b /\ next[b] = a

\* no strong_ptr outside the two objects references either of them, when
\* the variables are vs and the members nx
Isolated(vs, nx, a, b) ==
  /\ \A v \in StrongVars : vs[v].ctrl \notin {a, b}
  /\ \A n \in Blocks \ {a, b} : nx[n] \notin {a, b}

\* neither object has been destroyed nor its allocation returned
Intact(a, b) ==
  /\ destroyed[a] = 0 /\ destroyed[b] = 0
  /\ deallocated[a] = 0 /\ deallocated[b] = 0

\* while a cycle has no external strong_ptr, each object is kept by the
\* member of the other alone
C39_Inv ==
  \A a \in Blocks, b \in Blocks :
    (~uaf /\ Cycle(a, b) /\ Isolated(ss, next, a, b)) =>
      /\ strong_count[a] = 1 /\ strong_count[b] = 1
      /\ Intact(a, b)

\* a step that leaves a cycle without an external strong_ptr (the release
\* of the last one, or any step after it) leaves the cycle in place and
\* both objects alive with strong_count 1; an external strong_ptr comes
\* back only from lock() on a weak_ptr taken before, so with no weak_ptr
\* the cycle stays as it is for good
C39_Step ==
  \A a \in Blocks, b \in Blocks :
    (~uaf /\ ~uaf' /\ Cycle(a, b) /\ Intact(a, b)) =>
      /\ Isolated(ss', next', a, b) =>
           /\ next'[a] = b /\ next'[b] = a
           /\ strong_count'[a] = 1 /\ strong_count'[b] = 1
           /\ destroyed'[a] = 0 /\ destroyed'[b] = 0
           /\ deallocated'[a] = 0 /\ deallocated'[b] = 0
      /\ Isolated(ss, next, a, b) =>
           \/ Isolated(ss', next', a, b)
           \/ \E d \in StrongVars, w \in LockVars :
                node_lock(d, w) /\ ws[w].ctrl \in {a, b}
      /\ (Isolated(ss, next, a, b) /\ weak_count[a] = 0 /\ weak_count[b] = 0) =>
           /\ Isolated(ss', next', a, b)
           /\ weak_count'[a] = 0 /\ weak_count'[b] = 0

====
